---- MODULE Spec2Model ----
(***************************************************************************)
(* CampusHub: the in-memory store (server/storage.ts, MemStorage) and the  *)
(* live push channel and REST handlers (server/routes.ts, kept as          *)
(* src/unnamed/part_002).                                                  *)
(*                                                                         *)
(* Maps (Map<K,V>, Record<K,V>) are functions whose DOMAIN is the key set; *)
(* arrays are sequences; Set<T> is a set.  randomUUID() is a fresh id.     *)
(* Every handler runs as one step: MemStorage's promises are already       *)
(* resolved, so the awaits of a handler are consecutive microtasks and no  *)
(* other I/O callback runs between them.                                   *)
(***************************************************************************)
EXTENDS Naturals, Integers, Sequences, FiniteSets, TLC

\* ------------------------------------------------------------------ bounds
MaxMsgs == 3          \* message ids the model hands out (seeded ones included)
MaxSweeps == 3        \* reminder sweep passes
MaxPosts == 3         \* post ids the model hands out (seeded ones included)
MaxAnns == 5          \* announcements the store holds (seeded ones included)
MaxOrdered == 4       \* message ids the requests split after createMessage hand out

\* ------------------------------------------------------------- identifiers
AdminId == "admin"
DemoUserIds == <<"u1", "u2", "u3">>
UserIds == {AdminId} \cup {DemoUserIds[i] : i \in 1..Len(DemoUserIds)}
GroupIds == {"g1", "g2"}
MsgIds == 1..MaxMsgs
Emojis == {"thumb", "heart"}
None == "none"

\* ------------------------------------------------------- arrays and maps
Range(s) == {s[i] : i \in 1..Len(s)}

Includes(s, x) == \E i \in 1..Len(s) : s[i] = x

\* Array.prototype.indexOf, 1-based; 0 stands for -1.
IndexOf(s, x) ==
  IF Includes(s, x) THEN CHOOSE i \in 1..Len(s) : s[i] = x /\ \A j \in 1..(i-1) : s[j] # x
  ELSE 0

\* s.splice(i, 1)
Splice1(s, i) == [j \in 1..(Len(s)-1) |-> IF j < i THEN s[j] ELSE s[j+1]]

\* s.filter(id => id !== x)
RECURSIVE FilterOut(_, _)
FilterOut(s, x) ==
  IF s = <<>> THEN <<>>
  ELSE IF Head(s) = x THEN FilterOut(Tail(s), x)
       ELSE <<Head(s)>> \o FilterOut(Tail(s), x)

MapSet(f, k, v) == [x \in DOMAIN f \cup {k} |-> IF x = k THEN v ELSE f[x]]
MapDelete(f, k) == [x \in DOMAIN f \ {k} |-> f[x]]
EmptyMap == [x \in {} |-> None]

Max(a, b) == IF a > b THEN a ELSE b

Min(a, b) == IF a < b THEN a ELSE b

\* ------------------------------------------------------------------- state
VARIABLES
  users,              \* MemStorage.users: id -> [role, prefs]
  groups,             \* MemStorage.groups: id -> Group
  messages,           \* MemStorage.messages: id -> Message
  nextMsgId,          \* the next fresh message id (randomUUID)
  announcements,      \* MemStorage.announcements, in insertion order
  posts,              \* MemStorage.groupPosts: id -> GroupPost
  nextPostId,         \* the next fresh post id (randomUUID)
  events,             \* MemStorage.events: id -> [date, cancelled]
  eventRegistrations, \* MemStorage.eventRegistrations: eventId -> Set<userId>
  sentReminders,      \* MemStorage.sentReminders: Set<string>
  notifications,      \* MemStorage.notifications, in creation order
  now,                \* the clock, in minutes
  userConnections,    \* routes: userId -> WebSocket
  connUser,           \* per connection: the decoded token's user id
  connState,          \* per connection: "new", "open", "closing", "closed"
  typingUsers,        \* routes: groupId -> (userId -> timer handle)
  timers,             \* pending setTimeout callbacks, by handle: <<groupId, userId, n>>
  detachedGroups,     \* Group objects deleted from the map that a timer's closure still holds
  likeResult,         \* <<message, user>> -> what the user's last likeMessage call left: liked or not
  out,                \* frames sent by the last step, in order: <<connection, frame>>
  pending,            \* requests suspended at an await: user -> group id
  deleting,           \* delete requests suspended at an await: user -> the message they loaded
  awaiting,           \* handlers suspended at the await of a store call: caller -> what they hold
  received,           \* per connection: the ids of the message_created frames sent to it, in order
  lastOp              \* the last operation, with what it read before it wrote

boardVars == <<announcements, posts, nextPostId>>
storeVars == <<users, groups, messages, nextMsgId, boardVars>>
eventVars == <<events, eventRegistrations, sentReminders, now>>
wsVars == <<userConnections, connUser, connState, typingUsers, timers, detachedGroups>>
vars == <<users, groups, messages, nextMsgId, announcements, posts, nextPostId,
          events, eventRegistrations, sentReminders, notifications, now, userConnections, connUser,
          connState, typingUsers, timers, detachedGroups, likeResult, out, pending, deleting,
          awaiting, received, lastOp>>

\* ------------------------------------------------------------ seed data
\* seedData: every seeded user has all three preferences on.
SeedPrefs == [eventRegistration |-> TRUE, eventReminders24h |-> TRUE, eventReminders1h |-> TRUE]

SeedUsers ==
  [u \in UserIds |-> [role |-> IF u = AdminId THEN "admin" ELSE "student",
                      notificationPreferences |-> SeedPrefs]]

\* The seeded groups, by their index in seedData's list.
SeedGroupIndex == [g \in GroupIds |-> IF g = "g1" THEN 0 ELSE 1]

\* membersList = demoUserIds.slice(0, Math.min(4, index + 2))
SeedMembersList(index) == SubSeq(DemoUserIds, 1, Min(Len(DemoUserIds), Min(4, index + 2)))

SeedRoles(index) ==
  LET ml == SeedMembersList(index)
  IN [u \in Range(ml) \cup {AdminId} |->
        IF u = AdminId THEN "creator"
        ELSE IF IndexOf(ml, u) = 1 THEN "admin"
        ELSE IF IndexOf(ml, u) = 2 THEN "moderator"
        ELSE "member"]

\* One message is seeded per group (the source seeds 8 to 12); message i = 0 of
\* group index 0 is pinned and listed in that group's pinnedMessages.
SeedMsgOf == [g \in GroupIds |-> SeedGroupIndex[g] + 1]

SeedGroups ==
  [g \in GroupIds |->
     [members |-> Append(SeedMembersList(SeedGroupIndex[g]), AdminId),
      memberRoles |-> SeedRoles(SeedGroupIndex[g]),
      createdBy |-> AdminId,
      postsCount |-> 1,
      messagesCount |-> 1,
      pinnedMessages |-> IF SeedGroupIndex[g] = 0 THEN <<SeedMsgOf[g]>> ELSE <<>>]]

\* One post is seeded per group (numPosts is 1 or 2), written by a member of
\* membersList.
SeedPostOf == [g \in GroupIds |-> SeedGroupIndex[g] + 1]

SeedPost(g, author) ==
  [groupId |-> g, authorId |-> author]

SeedPostMaps ==
  {f \in [{SeedPostOf[g] : g \in GroupIds} ->
            UNION {{SeedPost(g, a) : a \in Range(SeedMembersList(SeedGroupIndex[g]))} :
                   g \in GroupIds}] :
     \A g \in GroupIds : f[SeedPostOf[g]].groupId = g}

\* The three seeded announcements, created by the admin.
SeedAnnouncements ==
  <<[createdBy |-> AdminId, priority |-> "urgent"],
    [createdBy |-> AdminId, priority |-> "important"],
    [createdBy |-> AdminId, priority |-> "normal"]>>

\* The values Math.floor(Math.random() * 5) takes.
SeedLikesMax == 4
SeedLikes == 0..SeedLikesMax

\* reactions is {} or holds one emoji with one member of membersList.
SeedReactions(index) ==
  {EmptyMap} \cup
  {MapSet(EmptyMap, e, <<u>>) : e \in Emojis, u \in Range(SeedMembersList(index))}

\* A text is the sequence of its characters; a seeded message has a sample
\* text and a created one the text of its request.
SeedContent == <<"s">>
NewContent == <<"m">>

SeedMessage(g, author, likes, reactions) ==
  [groupId |-> g, authorId |-> author, content |-> SeedContent, edited |-> FALSE,
   likes |-> likes, likedBy |-> <<>>,
   reactions |-> reactions, isPinned |-> (SeedGroupIndex[g] = 0)]

\* Every message map seedData can build (authors, likes and reactions are random).
SeedMessageMaps ==
  {f \in [{SeedMsgOf[g] : g \in GroupIds} ->
            UNION {{SeedMessage(g, a, l, r) :
                      a \in Range(SeedMembersList(SeedGroupIndex[g])),
                      l \in SeedLikes,
                      r \in SeedReactions(SeedGroupIndex[g])} : g \in GroupIds}] :
     \A g \in GroupIds : f[SeedMsgOf[g]].groupId = g}

\* --------------------------------------------------- MemStorage: messages
\* Each operator is the store after the call; a call on a missing message
\* returns undefined and leaves the store as it is.

\* createMessage: likes 0, likedBy [], reactions {}, isPinned false; the group's
\* message counter is bumped when the group exists.
CreateMessageMsgs(msgs, id, g, u) ==
  MapSet(msgs, id, [groupId |-> g, authorId |-> u, content |-> NewContent, edited |-> FALSE,
                    likes |-> 0, likedBy |-> <<>>,
                    reactions |-> EmptyMap, isPinned |-> FALSE])

CreateMessageGroups(grps, g) ==
  IF g \in DOMAIN grps
  THEN [grps EXCEPT ![g].messagesCount = grps[g].messagesCount + 1]
  ELSE grps

\* deleteMessage: Math.max(0, (group.messagesCount || 1) - 1), and the id is
\* filtered out of the group's pinnedMessages.
DeleteMessageMsgs(msgs, m) == IF m \in DOMAIN msgs THEN MapDelete(msgs, m) ELSE msgs

\* A variant of deleteMessage that leaves the group's counter as it is.
DeleteMessageGroupsKeepsCount(msgs, grps, m) ==
  IF m \in DOMAIN msgs /\ msgs[m].groupId \in DOMAIN grps
  THEN LET g == msgs[m].groupId
       IN [grps EXCEPT ![g].pinnedMessages = FilterOut(grps[g].pinnedMessages, m)]
  ELSE grps

DeleteMessageGroups(msgs, grps, m) ==
  IF m \in DOMAIN msgs /\ msgs[m].groupId \in DOMAIN grps
  THEN LET g == msgs[m].groupId
           c == IF grps[g].messagesCount = 0 THEN 1 ELSE grps[g].messagesCount
       IN [grps EXCEPT ![g].messagesCount = Max(0, c - 1),
                       ![g].pinnedMessages = FilterOut(grps[g].pinnedMessages, m)]
  ELSE grps

\* likeMessage: push the user when indexOf is -1, else splice that index out;
\* likes is set to likedBy.length on both branches.
\* A toggle that counts likes up and down instead of taking likedBy.length.
LikeMessageCounting(msgs, m, u) ==
  IF m \notin DOMAIN msgs THEN msgs
  ELSE LET likedIndex == IndexOf(msgs[m].likedBy, u)
       IN IF likedIndex = 0
          THEN [msgs EXCEPT ![m].likedBy = Append(@, u), ![m].likes = @ + 1]
          ELSE [msgs EXCEPT ![m].likedBy = Splice1(@, likedIndex), ![m].likes = Max(0, @ - 1)]

LikeMessage(msgs, m, u) ==
  IF m \notin DOMAIN msgs THEN msgs
  ELSE LET likedIndex == IndexOf(msgs[m].likedBy, u)
           likedBy == IF likedIndex = 0 THEN Append(msgs[m].likedBy, u)
                      ELSE Splice1(msgs[m].likedBy, likedIndex)
       IN [msgs EXCEPT ![m].likedBy = likedBy, ![m].likes = Len(likedBy)]

\* addReaction: the emoji's array is created when missing; the user is pushed
\* when absent, else spliced out, and the key is deleted when the array empties.
\* A toggle that leaves the emoji key in place when its array empties.
AddReactionKeepsKey(msgs, m, e, u) ==
  IF m \notin DOMAIN msgs THEN msgs
  ELSE LET r0 == IF e \in DOMAIN msgs[m].reactions THEN msgs[m].reactions
                 ELSE MapSet(msgs[m].reactions, e, <<>>)
           userIndex == IndexOf(r0[e], u)
           r1 == IF userIndex = 0 THEN MapSet(r0, e, Append(r0[e], u))
                 ELSE MapSet(r0, e, Splice1(r0[e], userIndex))
       IN [msgs EXCEPT ![m].reactions = r1]

AddReaction(msgs, m, e, u) ==
  IF m \notin DOMAIN msgs THEN msgs
  ELSE LET r0 == IF e \in DOMAIN msgs[m].reactions THEN msgs[m].reactions
                 ELSE MapSet(msgs[m].reactions, e, <<>>)
           userIndex == IndexOf(r0[e], u)
           r1 == IF userIndex = 0 THEN MapSet(r0, e, Append(r0[e], u))
                 ELSE LET a == Splice1(r0[e], userIndex)
                      IN IF Len(a) = 0 THEN MapDelete(r0, e) ELSE MapSet(r0, e, a)
       IN [msgs EXCEPT ![m].reactions = r1]

\* pinMessage: the flag is set; the id is pushed unless the list includes it.
PinMessageMsgs(msgs, m) ==
  IF m \in DOMAIN msgs THEN [msgs EXCEPT ![m].isPinned = TRUE] ELSE msgs

\* A pin that pushes the id without looking for it in the list first.
PinMessageGroupsNoLookup(msgs, grps, m) ==
  IF m \in DOMAIN msgs /\ msgs[m].groupId \in DOMAIN grps
  THEN [grps EXCEPT ![msgs[m].groupId].pinnedMessages = Append(@, m)]
  ELSE grps

PinMessageGroups(msgs, grps, m) ==
  IF m \in DOMAIN msgs /\ msgs[m].groupId \in DOMAIN grps
     /\ ~Includes(grps[msgs[m].groupId].pinnedMessages, m)
  THEN [grps EXCEPT ![msgs[m].groupId].pinnedMessages = Append(@, m)]
  ELSE grps

\* unpinMessage: the flag is cleared; the id is filtered out of the list.
UnpinMessageMsgs(msgs, m) ==
  IF m \in DOMAIN msgs THEN [msgs EXCEPT ![m].isPinned = FALSE] ELSE msgs

UnpinMessageGroups(msgs, grps, m) ==
  IF m \in DOMAIN msgs /\ msgs[m].groupId \in DOMAIN grps
  THEN [grps EXCEPT ![msgs[m].groupId].pinnedMessages = FilterOut(@, m)]
  ELSE grps

\* ----------------------------------------------------- MemStorage: groups
\* joinGroup: a user not yet in members is pushed and given the role "member".
JoinGroup(grps, g, u) ==
  IF g \in DOMAIN grps /\ ~Includes(grps[g].members, u)
  THEN [grps EXCEPT ![g].members = Append(@, u),
                    ![g].memberRoles = MapSet(@, u, "member")]
  ELSE grps

\* leaveGroup: the user is filtered out of members and the role entry deleted.
LeaveGroup(grps, g, u) ==
  IF g \in DOMAIN grps
  THEN [grps EXCEPT ![g].members = FilterOut(@, u),
                    ![g].memberRoles = MapDelete(@, u)]
  ELSE grps

\* A role change that does not look the user up in members.
SetMemberRoleAnyUser(grps, g, u, role) ==
  IF g \in DOMAIN grps
  THEN [grps EXCEPT ![g].memberRoles = MapSet(@, u, role)]
  ELSE grps

\* setMemberRole: the role is written only when members includes the user.
SetMemberRole(grps, g, u, role) ==
  IF g \in DOMAIN grps /\ Includes(grps[g].members, u)
  THEN [grps EXCEPT ![g].memberRoles = MapSet(@, u, role)]
  ELSE grps

\* getMemberRole: undefined for a missing group or a user without a role entry.
GetMemberRole(grps, g, u) ==
  IF g \in DOMAIN grps /\ u \in DOMAIN grps[g].memberRoles THEN grps[g].memberRoles[u]
  ELSE None

\* deleteGroup: the map entry goes; messages and posts of the group stay.
DeleteGroup(grps, g) == MapDelete(grps, g)

\* The roles setMemberRole's signature (and the route's check) admits.
AssignableRoles == {"admin", "moderator", "member"}

\* ------------------------------------------------------------------ Init
Conns == {"A", "B"}

InitStore ==
  /\ users = SeedUsers
  /\ groups = SeedGroups
  /\ nextMsgId = Cardinality(GroupIds) + 1
  /\ announcements = SeedAnnouncements
  /\ posts = CHOOSE f \in SeedPostMaps : \A p \in DOMAIN f : f[p].authorId = DemoUserIds[1]
  /\ nextPostId = Cardinality(GroupIds) + 1

InitEvents ==
  /\ events = EmptyMap
  /\ eventRegistrations = EmptyMap
  /\ sentReminders = {}
  /\ notifications = <<>>
  /\ now = 0

InitWs ==
  /\ userConnections = EmptyMap
  /\ connUser = [c \in Conns |-> None]
  /\ connState = [c \in Conns |-> "new"]
  /\ typingUsers = EmptyMap
  /\ timers = {}
  /\ detachedGroups = EmptyMap

\* No request is suspended when the server starts.
InitRequests ==
  /\ pending = EmptyMap
  /\ deleting = EmptyMap
  /\ awaiting = EmptyMap
  /\ received = [c \in Conns |-> <<>>]

InitHistory ==
  /\ likeResult = [k \in MsgIds \X UserIds |-> None]
  /\ out = <<>>
  /\ lastOp = [op |-> "init"]

\* One seed: the first member is every seeded message's author, likes 0, no reactions.
PlainSeed(f) ==
  \A m \in DOMAIN f :
    /\ f[m].authorId = DemoUserIds[1]
    /\ f[m].likes = 0
    /\ f[m].reactions = EmptyMap

Init ==
  /\ InitStore /\ InitEvents /\ InitWs /\ InitRequests /\ InitHistory
  /\ messages \in {f \in SeedMessageMaps : PlainSeed(f)}

\* --------------------------------------------- calls of the message store
StCreateMessage(g, u) ==
  /\ nextMsgId <= MaxMsgs
  /\ messages' = CreateMessageMsgs(messages, nextMsgId, g, u)
  /\ groups' = CreateMessageGroups(groups, g)
  /\ nextMsgId' = nextMsgId + 1
  /\ lastOp' = [op |-> "createMessage", m |-> nextMsgId, g |-> g, u |-> u]
  /\ out' = <<>>
  /\ UNCHANGED <<users, eventVars, notifications, wsVars, likeResult, boardVars, pending, deleting, awaiting, received>>

StDeleteMessage(m) ==
  /\ messages' = DeleteMessageMsgs(messages, m)
  /\ groups' = DeleteMessageGroups(messages, groups, m)
  /\ lastOp' = [op |-> "deleteMessage", m |-> m, found |-> (m \in DOMAIN messages)]
  /\ out' = <<>>
  /\ UNCHANGED <<users, nextMsgId, eventVars, notifications, wsVars, likeResult, boardVars, pending, deleting, awaiting, received>>

StLikeMessage(m, u) ==
  /\ messages' = LikeMessage(messages, m, u)
  /\ likeResult' = IF m \in DOMAIN messages
                   THEN [likeResult EXCEPT ![<<m, u>>] =
                           IF Includes(messages'[m].likedBy, u) THEN "liked" ELSE "unliked"]
                   ELSE likeResult
  /\ lastOp' = [op |-> "likeMessage", m |-> m, u |-> u, found |-> (m \in DOMAIN messages),
                wasLiked |-> (m \in DOMAIN messages /\ Includes(messages[m].likedBy, u)),
                previous |-> likeResult[<<m, u>>]]
  /\ out' = <<>>
  /\ UNCHANGED <<users, groups, nextMsgId, eventVars, notifications, wsVars, boardVars, pending, deleting, awaiting, received>>

\* The users under emoji e of message m, [] when the key is absent.
ReactedBy(msgs, m, e) ==
  IF m \in DOMAIN msgs /\ e \in DOMAIN msgs[m].reactions THEN msgs[m].reactions[e] ELSE <<>>

StAddReaction(m, e, u) ==
  LET again == /\ lastOp.op = "addReaction"
               /\ lastOp.m = m /\ lastOp.e = e /\ lastOp.u = u
  IN
  /\ messages' = AddReaction(messages, m, e, u)
  /\ lastOp' = [op |-> "addReaction", m |-> m, e |-> e, u |-> u,
                found |-> (m \in DOMAIN messages),
                again |-> again,
                before |-> Range(ReactedBy(messages, m, e)),
                beforeFirst |-> IF again THEN lastOp.before ELSE Range(ReactedBy(messages, m, e))]
  /\ out' = <<>>
  /\ UNCHANGED <<users, groups, nextMsgId, eventVars, notifications, wsVars, likeResult, boardVars, pending, deleting, awaiting, received>>

StPinMessage(m) ==
  /\ messages' = PinMessageMsgs(messages, m)
  /\ groups' = PinMessageGroups(messages, groups, m)
  /\ lastOp' = [op |-> "pinMessage", m |-> m, found |-> (m \in DOMAIN messages),
                wasPinned |-> (m \in DOMAIN messages /\ messages[m].isPinned)]
  /\ out' = <<>>
  /\ UNCHANGED <<users, nextMsgId, eventVars, notifications, wsVars, likeResult, boardVars, pending, deleting, awaiting, received>>

StUnpinMessage(m) ==
  /\ messages' = UnpinMessageMsgs(messages, m)
  /\ groups' = UnpinMessageGroups(messages, groups, m)
  /\ lastOp' = [op |-> "unpinMessage", m |-> m, found |-> (m \in DOMAIN messages)]
  /\ out' = <<>>
  /\ UNCHANGED <<users, nextMsgId, eventVars, notifications, wsVars, likeResult, boardVars, pending, deleting, awaiting, received>>

\* ------------------------------------------- pins: create, pin, unpin, delete
NextPins ==
  \/ \E g \in GroupIds, u \in UserIds : StCreateMessage(g, u)
  \/ \E m \in MsgIds : StPinMessage(m)
  \/ \E m \in MsgIds : StUnpinMessage(m)
  \/ \E m \in MsgIds : StDeleteMessage(m)

SpecPins == Init /\ [][NextPins]_vars

NoDuplicates(s) == \A i, j \in 1..Len(s) : s[i] = s[j] => i = j

\* C3: a group's pinnedMessages holds no id twice, and holds exactly the ids of
\* the stored messages of that group whose isPinned flag is true.
C3_PinnedListAgreesWithFlags ==
  \A g \in DOMAIN groups :
    /\ NoDuplicates(groups[g].pinnedMessages)
    /\ Range(groups[g].pinnedMessages) =
         {m \in DOMAIN messages : messages[m].groupId = g /\ messages[m].isPinned}

\* A message that was already pinned has been pinned again, in a group that
\* now lists two pinned messages.
C3_Witness ==
  /\ lastOp.op = "pinMessage"
  /\ lastOp.found
  /\ lastOp.wasPinned
  /\ \E g \in DOMAIN groups : Len(groups[g].pinnedMessages) = 2

\* ------------------------------------------------ likes: create, like, delete
\* The seeds with every seeded like count (likedBy is seeded empty).
InitLikes ==
  /\ InitStore /\ InitEvents /\ InitWs /\ InitRequests /\ InitHistory
  /\ messages \in {f \in SeedMessageMaps :
                     \A m \in DOMAIN f : f[m].authorId = DemoUserIds[1] /\ f[m].reactions = EmptyMap}

\* The users whose calls the like and reaction specifications draw.
Callers == {AdminId, DemoUserIds[1], DemoUserIds[2]}

\* A created message starts as a seeded one with likes 0 does, so the seeded
\* messages stand for every message here.
NextLikes ==
  \/ \E m \in MsgIds, u \in Callers : StLikeMessage(m, u)
  \/ \E m \in MsgIds : StDeleteMessage(m)

SpecLikes == InitLikes /\ [][NextLikes]_vars

\* C5: a likeMessage call by user u on message m flips u's presence in likedBy,
\* so it leaves the opposite of what u's previous call on m left, and after the
\* call likes is the number of entries of likedBy.
C5_LikeTogglesAndCounts ==
  (lastOp.op = "likeMessage" /\ lastOp.found) =>
    LET msg == messages[lastOp.m]
        liked == Includes(msg.likedBy, lastOp.u)
    IN /\ liked = ~lastOp.wasLiked
       /\ lastOp.previous = "liked" => ~liked
       /\ lastOp.previous = "unliked" => liked
       /\ msg.likes = Len(msg.likedBy)

\* A user's third call on a message (liked, unliked, liked again), on a message
\* another user likes too.
C5_Witness ==
  /\ lastOp.op = "likeMessage"
  /\ lastOp.found
  /\ lastOp.previous = "unliked"
  /\ Len(messages[lastOp.m].likedBy) = 2
  /\ Includes(messages[lastOp.m].likedBy, lastOp.u)

\* -------------------------------------------- reactions: create, react, delete
InitReact ==
  /\ InitStore /\ InitEvents /\ InitWs /\ InitRequests /\ InitHistory
  /\ messages \in {f \in SeedMessageMaps :
                     \A m \in DOMAIN f : f[m].authorId = DemoUserIds[1] /\ f[m].likes = 0}

Reactors == {DemoUserIds[1], DemoUserIds[2]}

NextReact ==
  \/ \E m \in MsgIds, e \in Emojis, u \in Reactors : StAddReaction(m, e, u)
  \/ \E m \in MsgIds : StDeleteMessage(m)

SpecReact == InitReact /\ [][NextReact]_vars

SecondOfTwoReactions == lastOp.op = "addReaction" /\ lastOp.found /\ lastOp.again

\* C6 as stated: after two consecutive reactMessage calls by one user with one
\* emoji, the emoji key is absent from the message's reactions.
C6_KeyAbsentAfterTwoCalls ==
  SecondOfTwoReactions => lastOp.e \notin DOMAIN messages[lastOp.m].reactions

\* C6 as amended: two consecutive reactMessage calls by one user with one emoji
\* leave the emoji's users as they were before the first call, so the key is
\* absent after the second call when no user held that emoji before the first;
\* no emoji key is ever left with an empty array.
C6_TwoCallsRestoreUsers ==
  /\ \A m \in DOMAIN messages : \A e \in DOMAIN messages[m].reactions :
       Len(messages[m].reactions[e]) > 0
  /\ SecondOfTwoReactions =>
       /\ Range(ReactedBy(messages, lastOp.m, lastOp.e)) = lastOp.beforeFirst
       /\ lastOp.beforeFirst = {} => lastOp.e \notin DOMAIN messages[lastOp.m].reactions

\* The round trip to empty: a second call on an emoji nobody held before the first.
C6_Witness ==
  /\ SecondOfTwoReactions
  /\ lastOp.beforeFirst = {}
  /\ lastOp.e \notin DOMAIN messages[lastOp.m].reactions

\* ------------------------------------------------------ calls of the group store
StJoinGroup(g, u) ==
  /\ groups' = JoinGroup(groups, g, u)
  /\ lastOp' = [op |-> "joinGroup", found |-> (g \in DOMAIN groups)]
  /\ out' = <<>>
  /\ UNCHANGED <<users, messages, nextMsgId, eventVars, notifications, wsVars, likeResult, boardVars, pending, deleting, awaiting, received>>

StLeaveGroup(g, u) ==
  /\ groups' = LeaveGroup(groups, g, u)
  /\ lastOp' = [op |-> "leaveGroup", found |-> (g \in DOMAIN groups)]
  /\ out' = <<>>
  /\ UNCHANGED <<users, messages, nextMsgId, eventVars, notifications, wsVars, likeResult, boardVars, pending, deleting, awaiting, received>>

StSetMemberRole(g, u, role) ==
  /\ groups' = SetMemberRole(groups, g, u, role)
  /\ lastOp' = [op |-> "setMemberRole",
                found |-> (g \in DOMAIN groups),
                wasMember |-> (g \in DOMAIN groups /\ Includes(groups[g].members, u))]
  /\ out' = <<>>
  /\ UNCHANGED <<users, messages, nextMsgId, eventVars, notifications, wsVars, likeResult, boardVars, pending, deleting, awaiting, received>>

StDeleteGroup(g) ==
  /\ g \in DOMAIN groups
  /\ groups' = DeleteGroup(groups, g)
  /\ detachedGroups' = MapSet(detachedGroups, g, groups[g])
  /\ lastOp' = [op |-> "deleteGroup"]
  /\ out' = <<>>
  /\ UNCHANGED <<users, messages, nextMsgId, eventVars, notifications, userConnections,
                 connUser, connState, typingUsers, timers, likeResult, boardVars, pending, deleting, awaiting, received>>

\* The users whose membership the group specification changes.
Movers == {DemoUserIds[2], DemoUserIds[3]}

NextGroups ==
  \/ \E g \in GroupIds, u \in Movers : StJoinGroup(g, u)
  \/ \E g \in GroupIds, u \in Movers : StLeaveGroup(g, u)
  \/ \E g \in GroupIds, u \in Movers, role \in AssignableRoles : StSetMemberRole(g, u, role)
  \/ \E g \in GroupIds : StDeleteGroup(g)

SpecGroups == Init /\ [][NextGroups]_vars

\* C4: in every group the keys of memberRoles are members of the group.
C4_RoleKeysAreMembers ==
  \A g \in DOMAIN groups : DOMAIN groups[g].memberRoles \subseteq Range(groups[g].members)

\* A role change aimed at a non-member, with a seeded member gone from every
\* group and a user who was seeded outside a group now in it.
C4_Witness ==
  /\ lastOp.op = "setMemberRole"
  /\ lastOp.found
  /\ ~lastOp.wasMember
  /\ DOMAIN groups = GroupIds
  /\ \A g \in GroupIds : ~Includes(groups[g].members, DemoUserIds[2])
  /\ \E g \in GroupIds : Range(groups[g].members) \ Range(SeedGroups[g].members) # {}

\* ------------------------------------------------- notifications (storage)
\* A stable insertion of n into a list sorted by createdAt, newest first.
RECURSIVE InsertByCreatedAt(_, _)
InsertByCreatedAt(sorted, n) ==
  IF sorted = <<>> THEN <<n>>
  ELSE IF sorted[Len(sorted)].createdAt >= n.createdAt THEN Append(sorted, n)
  ELSE Append(InsertByCreatedAt(SubSeq(sorted, 1, Len(sorted) - 1), n), sorted[Len(sorted)])

RECURSIVE SortByCreatedAt(_)
SortByCreatedAt(list) ==
  IF list = <<>> THEN <<>>
  ELSE InsertByCreatedAt(SortByCreatedAt(SubSeq(list, 1, Len(list) - 1)), list[Len(list)])

\* A variant of getNotifications that returns the newest notification only.
GetNotificationsNewest(all, u) ==
  LET sorted == SortByCreatedAt(SelectSeq(all, LAMBDA n : n.userId = u))
  IN  IF sorted = <<>> THEN <<>> ELSE <<sorted[1]>>

GetNotifications(all, u) ==
  SortByCreatedAt(SelectSeq(all, LAMBDA n : n.userId = u))

\* A stored notification; eventId and reminderType are None where the code
\* leaves them out.
Notification(id, u, type, link, eventId, reminderType, createdAt) ==
  [id |-> id, userId |-> u, type |-> type, link |-> link, eventId |-> eventId,
   reminderType |-> reminderType, read |-> FALSE, createdAt |-> createdAt]

CreateNotification(all, u, type, link, eventId, createdAt) ==
  Append(all, Notification(Len(all) + 1, u, type, link, eventId, None, createdAt))

\* ------------------------------------------------------ live channel (routes)
\* The frames a broadcast sends, in the order of the member list: one for each
\* listed user whose registered connection is open.
BroadcastToGroup(registry, state, message, members) ==
  LET reached == SelectSeq(members, LAMBDA m : /\ m \in DOMAIN registry
                                               /\ state[registry[m]] = "open")
  IN  [i \in 1..Len(reached) |-> <<registry[reached[i]], message>>]

BroadcastNotification(registry, state, u, notification) ==
  IF u \in DOMAIN registry /\ state[registry[u]] = "open"
    THEN << <<registry[u], [type |-> "notification", data |-> notification]>> >>
    ELSE <<>>

\* The typing_update frame of a group; the list of typing users is kept as the
\* set of their ids.
TypingUpdate(g, groupTyping) ==
  [type |-> "typing_update", groupId |-> g, typingUsers |-> DOMAIN groupTyping]

\* The Group object a handler or a timer's closure holds.
GroupObject(g) ==
  IF g \in DOMAIN groups THEN groups[g] ELSE detachedGroups[g]

\* The typing map of a group, empty when typingUsers has none.
GroupTyping(typing, g) ==
  IF g \in DOMAIN typing THEN typing[g] ELSE EmptyMap

\* A timer handle is <<groupId, userId, n>>: the pair its callback closes over
\* and a mark n that tells the handle from the pair's previous one.
TimerIds == {0, 1}

\* setTimeout returns a fresh handle: the least n whose handle is neither
\* pending nor the one just cleared.
FreshTimer(g, u, cleared) ==
  LET free == {n \in TimerIds : <<g, u, n>> \notin timers /\ <<g, u, n>> \notin cleared}
  IN  CHOOSE n \in free : \A k \in free : n <= k

HasFreshTimer(g, u, cleared) ==
  \E n \in TimerIds : <<g, u, n>> \notin timers /\ <<g, u, n>> \notin cleared

\* The timers a close handler clears: those of the user's entries in every group.
ClosedTimers(typing, u) ==
  {<<g, u, typing[g][u]>> : g \in {h \in DOMAIN typing : u \in DOMAIN typing[h]}}

CloseTyping(typing, u) ==
  [g \in DOMAIN typing |-> MapDelete(typing[g], u)]

\* A variant of the connection handler that registers the socket under the id
\* the request names before it closes it.
WsRejectAfterRegistering(c) ==
  /\ connState[c] = "new"
  /\ connState' = [connState EXCEPT ![c] = "closed"]
  /\ userConnections' = MapSet(userConnections, DemoUserIds[1], c)
  /\ lastOp' = [op |-> "reject", c |-> c, code |-> 1008]
  /\ out' = <<>>
  /\ UNCHANGED <<storeVars, eventVars, notifications, connUser,
                 typingUsers, timers, detachedGroups, likeResult, pending, deleting, awaiting, received>>

\* connection without a token, or with one that does not verify
WsReject(c) ==
  /\ connState[c] = "new"
  /\ connState' = [connState EXCEPT ![c] = "closed"]
  /\ lastOp' = [op |-> "reject", c |-> c, code |-> 1008]
  /\ out' = <<>>
  /\ UNCHANGED <<storeVars, eventVars, notifications, userConnections, connUser,
                 typingUsers, timers, detachedGroups, likeResult, pending, deleting, awaiting, received>>

\* connection with a token that decodes to u
WsConnect(c, u) ==
  /\ connState[c] = "new"
  /\ connState' = [connState EXCEPT ![c] = "open"]
  /\ connUser' = [connUser EXCEPT ![c] = u]
  /\ userConnections' = MapSet(userConnections, u, c)
  /\ out' = << <<c, [type |-> "notifications", data |-> GetNotifications(notifications, u)]>> >>
  /\ lastOp' = [op |-> "connect", c |-> c, u |-> u,
                stored |-> IF u \in DOMAIN userConnections THEN userConnections[u] ELSE None]
  /\ UNCHANGED <<storeVars, eventVars, notifications, typingUsers, timers,
                 detachedGroups, likeResult, pending, deleting, awaiting, received>>

\* A variant of the typing_start handler that sets the new timer and leaves
\* the entry's old one pending.
TypingStartTimersNoClear(g, u) ==
  timers \cup {<<g, u, FreshTimer(g, u, {})>>}

TypingStartTimers(g, u) ==
  LET groupTyping == GroupTyping(typingUsers, g)
      cleared == IF u \in DOMAIN groupTyping THEN {<<g, u, groupTyping[u]>>} ELSE {}
  IN  (timers \ cleared) \cup {<<g, u, FreshTimer(g, u, cleared)>>}

TypingStartTyping(g, u) ==
  LET groupTyping == GroupTyping(typingUsers, g)
      cleared == IF u \in DOMAIN groupTyping THEN {<<g, u, groupTyping[u]>>} ELSE {}
  IN  MapSet(typingUsers, g, MapSet(groupTyping, u, FreshTimer(g, u, cleared)))

\* message {type: "typing_start", groupId: g} on connection c
WsTypingStart(c, g) ==
  LET u == connUser[c]
      groupTyping == GroupTyping(typingUsers, g)
      cleared == IF u \in DOMAIN groupTyping THEN {<<g, u, groupTyping[u]>>} ELSE {}
  IN
  /\ connState[c] = "open"
  /\ IF g \notin DOMAIN groups
       THEN /\ out' = <<>>
            /\ lastOp' = [op |-> "typing_start", g |-> g, u |-> u, found |-> FALSE]
            /\ UNCHANGED <<typingUsers, timers>>
       ELSE /\ HasFreshTimer(g, u, cleared)
            /\ timers' = TypingStartTimers(g, u)
            /\ typingUsers' = TypingStartTyping(g, u)
            /\ out' = BroadcastToGroup(userConnections, connState,
                                       TypingUpdate(g, typingUsers'[g]),
                                       FilterOut(groups[g].members, u))
            /\ lastOp' = [op |-> "typing_start", g |-> g, u |-> u, found |-> TRUE]
  /\ UNCHANGED <<storeVars, eventVars, notifications, userConnections, connUser,
                 connState, detachedGroups, likeResult, pending, deleting, awaiting, received>>

\* A variant of the typing_stop handler that deletes the entry and leaves its
\* timer pending.
TypingStopTimersNoClear(g, u) ==
  timers

TypingStopTimers(g, u) ==
  IF g \in DOMAIN typingUsers /\ u \in DOMAIN typingUsers[g]
    THEN timers \ {<<g, u, typingUsers[g][u]>>}
    ELSE timers

TypingStopTyping(g, u) ==
  IF g \in DOMAIN typingUsers
    THEN [typingUsers EXCEPT ![g] = MapDelete(typingUsers[g], u)]
    ELSE typingUsers

\* message {type: "typing_stop", groupId: g} on connection c
WsTypingStop(c, g) ==
  LET u == connUser[c]
      afterStart == /\ lastOp.op = "typing_start"
                    /\ lastOp.found
                    /\ lastOp.g = g
                    /\ lastOp.u = u
  IN
  /\ connState[c] = "open"
  /\ IF g \notin DOMAIN groups
       THEN /\ out' = <<>>
            /\ lastOp' = [op |-> "typing_stop", g |-> g, u |-> u, found |-> FALSE,
                          afterStart |-> FALSE]
            /\ UNCHANGED <<typingUsers, timers>>
       ELSE /\ timers' = TypingStopTimers(g, u)
            /\ typingUsers' = TypingStopTyping(g, u)
            /\ out' = IF g \in DOMAIN typingUsers
                        THEN BroadcastToGroup(userConnections, connState,
                                              TypingUpdate(g, typingUsers'[g]),
                                              FilterOut(groups[g].members, u))
                        ELSE <<>>
            /\ lastOp' = [op |-> "typing_stop", g |-> g, u |-> u, found |-> TRUE,
                          afterStart |-> afterStart]
  /\ UNCHANGED <<storeVars, eventVars, notifications, userConnections, connUser,
                 connState, detachedGroups, likeResult, pending, deleting, awaiting, received>>

\* A variant of the timer's callback that broadcasts and keeps the entry.
TimerFireTypingKeepsEntry(g, u) ==
  typingUsers

TimerFireTyping(g, u) ==
  [typingUsers EXCEPT ![g] = MapDelete(typingUsers[g], u)]

\* the callback of the timer typing_start set for <<g, u>> runs
WsTimerFire(g, u, n) ==
  /\ <<g, u, n>> \in timers
  /\ timers' = timers \ {<<g, u, n>>}
  /\ typingUsers' = TimerFireTyping(g, u)
  /\ out' = BroadcastToGroup(userConnections, connState,
                             TypingUpdate(g, typingUsers'[g]), GroupObject(g).members)
  /\ lastOp' = [op |-> "timer", g |-> g, u |-> u]
  /\ UNCHANGED <<storeVars, eventVars, notifications, userConnections, connUser,
                 connState, detachedGroups, likeResult, pending, deleting, awaiting, received>>

\* the peer's close frame arrives, or the server starts closing: the socket
\* leaves the OPEN state before its close event is delivered
WsClosing(c) ==
  /\ connState[c] = "open"
  /\ connState' = [connState EXCEPT ![c] = "closing"]
  /\ lastOp' = [op |-> "closing", c |-> c]
  /\ out' = <<>>
  /\ UNCHANGED <<storeVars, eventVars, notifications, userConnections, connUser,
                 typingUsers, timers, detachedGroups, likeResult, pending, deleting, awaiting, received>>

\* the close event of connection c
WsClose(c) ==
  LET u == connUser[c] IN
  /\ connState[c] \in {"open", "closing"}
  /\ connState' = [connState EXCEPT ![c] = "closed"]
  /\ userConnections' = MapDelete(userConnections, u)
  /\ timers' = timers \ ClosedTimers(typingUsers, u)
  /\ typingUsers' = CloseTyping(typingUsers, u)
  /\ out' = <<>>
  /\ lastOp' = [op |-> "close", c |-> c, u |-> u,
                stored |-> IF u \in DOMAIN userConnections THEN userConnections[u] ELSE None,
                typedIn |-> {g \in DOMAIN typingUsers : u \in DOMAIN typingUsers[g]}]
  /\ UNCHANGED <<storeVars, eventVars, notifications, connUser, detachedGroups, likeResult, pending, deleting, awaiting, received>>

\* the error event of connection c; the socket is closing when it is emitted
WsError(c) ==
  LET u == connUser[c] IN
  /\ connState[c] \in {"open", "closing"}
  /\ connState' = [connState EXCEPT ![c] = "closing"]
  /\ userConnections' = MapDelete(userConnections, u)
  /\ out' = <<>>
  /\ lastOp' = [op |-> "error", c |-> c, u |-> u,
                stored |-> IF u \in DOMAIN userConnections THEN userConnections[u] ELSE None]
  /\ UNCHANGED <<storeVars, eventVars, notifications, connUser, typingUsers, timers,
                 detachedGroups, likeResult, pending, deleting, awaiting, received>>

\* The users who connect, the group ids their frames carry (one of them names
\* no group) and the connections of the live-channel specification.
WsUsers == {DemoUserIds[1], DemoUserIds[3]}
FrameGroupIds == GroupIds \cup {"gx"}

NextWS ==
  \/ \E c \in Conns : WsReject(c)
  \/ \E c \in Conns, u \in WsUsers : WsConnect(c, u)
  \/ \E c \in Conns, g \in FrameGroupIds : WsTypingStart(c, g)
  \/ \E c \in Conns, g \in FrameGroupIds : WsTypingStop(c, g)
  \/ \E g \in GroupIds, u \in WsUsers, n \in TimerIds : WsTimerFire(g, u, n)
  \/ \E c \in Conns : WsClosing(c)
  \/ \E c \in Conns : WsClose(c)
  \/ \E c \in Conns : WsError(c)

SpecWS == Init /\ [][NextWS]_vars

\* A user's registered connection is open: a broadcast reaches the user.
Reachable(v) ==
  v \in DOMAIN userConnections /\ connState[userConnections[v]] = "open"

\* C1: when the close or error event of a connection is handled while the
\* registry holds another, open connection for its user (the one that replaced
\* it), the registry still maps the user to that other connection afterwards.
C1_ReplacedSessionKeepsEntry ==
  (/\ lastOp.op \in {"close", "error"}
   /\ lastOp.stored # None
   /\ lastOp.stored # lastOp.c
   /\ connState[lastOp.stored] = "open")
  => /\ lastOp.u \in DOMAIN userConnections
     /\ userConnections[lastOp.u] = lastOp.stored

\* C2: after the close event of a user's connection no group has a typing
\* entry of the user, and for each group that had one a typing_update frame
\* with the updated list was sent to the group's reachable members.
C2_DisconnectClearsAndBroadcasts ==
  lastOp.op = "close" =>
    /\ \A g \in DOMAIN typingUsers : lastOp.u \notin DOMAIN typingUsers[g]
    /\ \A g \in lastOp.typedIn \cap DOMAIN groups :
         \A v \in Range(groups[g].members) \ {lastOp.u} :
           Reachable(v) =>
             \E i \in 1..Len(out) :
               out[i] = <<userConnections[v], TypingUpdate(g, typingUsers[g])>>

\* C7: a typing_stop of user u for the existing group g handled right after a
\* typing_start of u for g leaves no typing entry and no pending timer for
\* (g, u), and sends a typing_update frame whose list lacks u to every other
\* member of g that is reachable, and frames to nobody else.
C7_StartThenStopClearsTyping ==
  (lastOp.op = "typing_stop" /\ lastOp.afterStart) =>
    LET g == lastOp.g
        u == lastOp.u
        others == Range(groups[g].members) \ {u}
    IN  /\ g \in DOMAIN typingUsers
        /\ u \notin DOMAIN typingUsers[g]
        /\ \A n \in TimerIds : <<g, u, n>> \notin timers
        /\ \A v \in others :
             Reachable(v) => \E i \in 1..Len(out) : out[i][1] = userConnections[v]
        /\ \A i \in 1..Len(out) :
             /\ out[i][2].type = "typing_update"
             /\ out[i][2].groupId = g
             /\ u \notin out[i][2].typingUsers
             /\ \E v \in others : Reachable(v) /\ out[i][1] = userConnections[v]

\* A typing_stop right after the typing_start, with another member of the
\* group connected and receiving the frame.
C7_Witness ==
  /\ lastOp.op = "typing_stop"
  /\ lastOp.afterStart
  /\ Len(out) = 1
  /\ connUser[out[1][1]] # lastOp.u

\* The timers fire: a pending timer's callback runs unless the timer is cleared.
FairSpecWS ==
  SpecWS /\ \A g \in GroupIds, u \in WsUsers, n \in TimerIds : WF_vars(WsTimerFire(g, u, n))

HasTypingEntry(g, u) ==
  g \in DOMAIN typingUsers /\ u \in DOMAIN typingUsers[g]

\* C8: the typing entry a typing_start made for (g, u) does not stay: with no
\* typing_stop and no further typing_start for (g, u) (which would replace the
\* entry's timer), the timer fires and (g, u) has no entry.
C8_TypingEntryEventuallyRemoved ==
  \A g \in GroupIds, u \in WsUsers, n \in TimerIds :
    (HasTypingEntry(g, u) /\ typingUsers[g][u] = n)
      ~> (~HasTypingEntry(g, u) \/ typingUsers[g][u] # n)

\* The timer of an entry has fired, the entry is gone and another member got
\* the frame.
C8_Witness ==
  /\ lastOp.op = "timer"
  /\ ~HasTypingEntry(lastOp.g, lastOp.u)
  /\ \E i \in 1..Len(out) : connUser[out[i][1]] # lastOp.u

\* ------------------------------------------------ event reminders (storage)
\* Times are minutes. The sweep runs every five minutes and compares the hours
\* until the event's date with 23.9 and 24.1, and with 0.9 and 1.1.
SweepMinutes == 5
Window24hLow == 1434
Window24hHigh == 1446
Window1hLow == 54
Window1hHigh == 66

\* An event's date puts the first passes inside its 24h window or inside its
\* 1h window.
EventDates == {Window24hHigh + 4, Window1hHigh + 4}
EventIds == {"e1", "e2"}
EventOrder == <<"e1", "e2">>
ReminderTypes == {"24h", "1h"}

\* createEvent's record, with the fields the reminders and the registration read;
\* maxParticipants 0 stands for none.
NewEvent(date) ==
  [date |-> date, cancelled |-> FALSE, maxParticipants |-> 0, currentParticipants |-> 0]

UpdateEvent(evts, e, date) ==
  IF e \in DOMAIN evts THEN [evts EXCEPT ![e].date = date] ELSE evts

CanRegister(evts, e) ==
  /\ e \in DOMAIN evts
  /\ ~evts[e].cancelled
  /\ ~(evts[e].maxParticipants # 0 /\ evts[e].currentParticipants >= evts[e].maxParticipants)

\* The registrations of an event are a Set: its members in insertion order.
RegisterForEventRegs(regs, evts, e, u) ==
  IF ~CanRegister(evts, e) THEN regs
  ELSE LET had == IF e \in DOMAIN regs THEN regs[e] ELSE <<>>
       IN  MapSet(regs, e, IF Includes(had, u) THEN had ELSE Append(had, u))

RegisterForEventEvents(regs, evts, e, u) ==
  IF ~CanRegister(evts, e) THEN evts
  ELSE [evts EXCEPT ![e].currentParticipants = Len(RegisterForEventRegs(regs, evts, e, u)[e])]

UnregisterFromEventRegs(regs, evts, e, u) ==
  IF e \in DOMAIN evts /\ e \in DOMAIN regs /\ Includes(regs[e], u)
    THEN [regs EXCEPT ![e] = FilterOut(regs[e], u)]
    ELSE regs

UnregisterFromEventEvents(regs, evts, e, u) ==
  IF e \in DOMAIN evts /\ e \in DOMAIN regs /\ Includes(regs[e], u)
    THEN [evts EXCEPT ![e].currentParticipants = Len(FilterOut(regs[e], u))]
    ELSE evts

\* `${event.id}-${userId}-${type}`
ReminderKey(e, u, type) == e \o "-" \o u \o "-" \o type

\* A variant that reads the other reminder type's preference.
PrefKeyOtherType(type) == IF type = "24h" THEN "eventReminders1h" ELSE "eventReminders24h"

PrefKey(type) == IF type = "24h" THEN "eventReminders24h" ELSE "eventReminders1h"

\* A variant of the duplicate check that finds no key.
ReminderSentNever(sent, key) ==
  FALSE

ReminderSent(sent, key) ==
  key \in sent

\* The body of sendReminderNotifications' forEach for one registered user; acc
\* carries the notifications and the sent keys.
RemindUser(acc, e, u, type, t) ==
  IF ReminderSent(acc.sent, ReminderKey(e, u, type)) THEN acc
  ELSE IF u \notin DOMAIN users THEN acc
  ELSE IF ~users[u].notificationPreferences[PrefKey(type)] THEN acc
  ELSE [notifications |-> Append(acc.notifications,
                                 Notification(Len(acc.notifications) + 1, u, "reminder",
                                              "/events/" \o e, e, type, t)),
        sent |-> acc.sent \cup {ReminderKey(e, u, type)}]

\* A variant of the forEach that stops at the first registered user without a
\* user record.
RECURSIVE RemindEachAborting(_, _, _, _, _)
RemindEachAborting(registered, acc, e, type, t) ==
  IF registered = <<>> THEN acc
  ELSE IF Head(registered) \notin DOMAIN users THEN acc
  ELSE RemindEachAborting(Tail(registered), RemindUser(acc, e, Head(registered), type, t), e, type, t)

RECURSIVE RemindEach(_, _, _, _, _)
RemindEach(registered, acc, e, type, t) ==
  IF registered = <<>> THEN acc
  ELSE RemindEach(Tail(registered), RemindUser(acc, e, Head(registered), type, t), e, type, t)

SendReminderNotifications(acc, e, type, t) ==
  IF e \notin DOMAIN eventRegistrations THEN acc
  ELSE RemindEach(eventRegistrations[e], acc, e, type, t)

InWindow24h(date, t) == date - t > Window24hLow /\ date - t < Window24hHigh
InWindow1h(date, t) == date - t > Window1hLow /\ date - t < Window1hHigh

\* One event of a pass at time t.
SweepEvent(acc, e, t) ==
  LET after24h == IF InWindow24h(events[e].date, t)
                    THEN SendReminderNotifications(acc, e, "24h", t) ELSE acc
  IN  IF InWindow1h(events[e].date, t)
        THEN SendReminderNotifications(after24h, e, "1h", t) ELSE after24h

RECURSIVE SweepEvents(_, _, _)
SweepEvents(order, acc, t) ==
  IF order = <<>> THEN acc
  ELSE SweepEvents(Tail(order),
                   IF Head(order) \in DOMAIN events THEN SweepEvent(acc, Head(order), t) ELSE acc,
                   t)

\* one pass of the interval scheduleEventReminders set
EvSweep ==
  LET t == now + SweepMinutes
      swept == SweepEvents(EventOrder, [notifications |-> notifications, sent |-> sentReminders], t)
  IN
  /\ t <= SweepMinutes * MaxSweeps
  /\ now' = t
  /\ notifications' = swept.notifications
  /\ sentReminders' = swept.sent
  /\ lastOp' = [op |-> "sweep", afterSweep |-> lastOp.op = "sweep"]
  /\ out' = <<>>
  /\ UNCHANGED <<storeVars, events, eventRegistrations, wsVars, likeResult, pending, deleting, awaiting, received>>

StCreateEvent(e, date) ==
  /\ e \notin DOMAIN events
  /\ events' = MapSet(events, e, NewEvent(date))
  /\ lastOp' = [op |-> "events"]
  /\ out' = <<>>
  /\ UNCHANGED <<storeVars, eventRegistrations, sentReminders, now, notifications, wsVars,
                 likeResult, pending, deleting, awaiting, received>>

StUpdateEvent(e, date) ==
  /\ events' = UpdateEvent(events, e, date)
  /\ lastOp' = [op |-> "events"]
  /\ out' = <<>>
  /\ UNCHANGED <<storeVars, eventRegistrations, sentReminders, now, notifications, wsVars,
                 likeResult, pending, deleting, awaiting, received>>

StRegisterForEvent(e, u) ==
  /\ eventRegistrations' = RegisterForEventRegs(eventRegistrations, events, e, u)
  /\ events' = RegisterForEventEvents(eventRegistrations, events, e, u)
  /\ lastOp' = [op |-> "events"]
  /\ out' = <<>>
  /\ UNCHANGED <<storeVars, sentReminders, now, notifications, wsVars, likeResult, pending, deleting, awaiting, received>>

StUnregisterFromEvent(e, u) ==
  /\ eventRegistrations' = UnregisterFromEventRegs(eventRegistrations, events, e, u)
  /\ events' = UnregisterFromEventEvents(eventRegistrations, events, e, u)
  /\ lastOp' = [op |-> "events"]
  /\ out' = <<>>
  /\ UNCHANGED <<storeVars, sentReminders, now, notifications, wsVars, likeResult, pending, deleting, awaiting, received>>

UpdateUser(usrs, u, updates) ==
  IF u \in DOMAIN usrs
    THEN [usrs EXCEPT ![u] = [f \in DOMAIN usrs[u] |->
                                IF f \in DOMAIN updates THEN updates[f] ELSE usrs[u][f]]]
    ELSE usrs

\* updateUser with a new value for one reminder preference
StUpdateUser(u, type, on) ==
  /\ users' = UpdateUser(users, u,
                [notificationPreferences |->
                   [users[u].notificationPreferences EXCEPT ![PrefKey(type)] = on]])
  /\ lastOp' = [op |-> "updateUser"]
  /\ out' = <<>>
  /\ UNCHANGED <<groups, messages, nextMsgId, eventVars, notifications, wsVars, likeResult, boardVars, pending, deleting, awaiting, received>>

\* seedData: the first seeded event, with the first demo user registered; the
\* clock starts shortly before the event's 24h window.
InitReminders ==
  /\ InitStore /\ InitWs /\ InitRequests /\ InitHistory
  /\ messages \in {f \in SeedMessageMaps : PlainSeed(f)}
  /\ events = [e \in {"e1"} |-> [NewEvent(Window24hHigh + 4) EXCEPT !.currentParticipants = 1]]
  /\ eventRegistrations = [e \in {"e1"} |-> <<DemoUserIds[1]>>]
  /\ sentReminders = {}
  /\ notifications = <<>>
  /\ now = 0

\* The users whose registrations the reminder specification changes; the first
\* of them also changes preferences. The second event is created inside its
\* 1h window and the first one is moved between the windows.
Attendees == {DemoUserIds[1], DemoUserIds[2]}

NextReminders ==
  \/ EvSweep
  \/ StCreateEvent("e2", Window1hHigh + 4)
  \/ \E d \in EventDates : StUpdateEvent("e1", d)
  \/ \E u \in Attendees : StRegisterForEvent("e1", u)
  \/ \E u \in Attendees : StUnregisterFromEvent("e1", u)
  \/ StRegisterForEvent("e2", DemoUserIds[1])
  \/ \E type \in ReminderTypes, on \in BOOLEAN : StUpdateUser(DemoUserIds[1], type, on)

SpecReminders == InitReminders /\ [][NextReminders]_vars

Reminders(e, u, type) ==
  {i \in 1..Len(notifications) : /\ notifications[i].type = "reminder"
                                 /\ notifications[i].eventId = e
                                 /\ notifications[i].userId = u
                                 /\ notifications[i].reminderType = type}

\* C9: at most one reminder notification exists for each event, user and
\* reminder type; after two consecutive passes inside an event's 24h window a
\* registered user whose 24h preference is on has exactly one 24h reminder of it.
C9_OneReminderPerKey ==
  /\ \A e \in EventIds, u \in UserIds, type \in ReminderTypes :
       Cardinality(Reminders(e, u, type)) <= 1
  /\ (lastOp.op = "sweep" /\ lastOp.afterSweep) =>
       \A e \in DOMAIN events, u \in DOMAIN users :
         (/\ InWindow24h(events[e].date, now)
          /\ InWindow24h(events[e].date, now - SweepMinutes)
          /\ e \in DOMAIN eventRegistrations
          /\ Includes(eventRegistrations[e], u)
          /\ users[u].notificationPreferences.eventReminders24h)
         => Cardinality(Reminders(e, u, "24h")) = 1

\* Two consecutive passes inside the 24h window of an event with a registered
\* user, who has one 24h reminder; and some event has both of its reminders
\* for one user.
C9_Witness ==
  /\ lastOp.op = "sweep"
  /\ lastOp.afterSweep
  /\ \E e \in DOMAIN events, u \in Attendees :
       /\ InWindow24h(events[e].date, now)
       /\ InWindow24h(events[e].date, now - SweepMinutes)
       /\ e \in DOMAIN eventRegistrations
       /\ Includes(eventRegistrations[e], u)
       /\ Cardinality(Reminders(e, u, "24h")) = 1
  /\ \E e \in EventIds, u \in Attendees :
       Reminders(e, u, "24h") # {} /\ Reminders(e, u, "1h") # {}

\* ------------------------------------------- POST /api/groups/:id/messages
\* A variant of the route's loop that leaves out its test of the member id.
MessageRecipientsAll(members, u) ==
  members

\* The members the route's loop notifies: those that are not the sender.
MessageRecipients(members, u) ==
  FilterOut(members, u)

\* A variant of the message_created broadcast that leaves the sender out.
MessageAudienceOthers(members, u) ==
  FilterOut(members, u)

\* The audience of the message_created broadcast: group.members.
MessageAudience(members, u) ==
  members

\* The loop over the recipients; acc carries the notifications and the frames.
RECURSIVE NotifyMessage(_, _, _, _)
NotifyMessage(recipients, acc, g, t) ==
  IF recipients = <<>> THEN acc
  ELSE LET stored == CreateNotification(acc.notifications, Head(recipients), "message",
                                        "/groups/" \o g, None, t)
       IN  NotifyMessage(Tail(recipients),
                         [notifications |-> stored,
                          out |-> acc.out \o BroadcastNotification(userConnections, connState,
                                                                   Head(recipients),
                                                                   stored[Len(stored)])],
                         g, t)

\* the request of user u for group id g; valid says whether the body parses
RtPostMessage(g, u, valid) ==
  IF g \notin DOMAIN groups THEN
    /\ lastOp' = [op |-> "postMessage", status |-> 404]
    /\ out' = <<>>
    /\ UNCHANGED <<storeVars, eventVars, notifications, wsVars, likeResult, pending, deleting, awaiting, received>>
  ELSE IF ~Includes(groups[g].members, u) THEN
    /\ lastOp' = [op |-> "postMessage", status |-> 403]
    /\ out' = <<>>
    /\ UNCHANGED <<storeVars, eventVars, notifications, wsVars, likeResult, pending, deleting, awaiting, received>>
  ELSE IF ~valid THEN
    /\ lastOp' = [op |-> "postMessage", status |-> 400]
    /\ out' = <<>>
    /\ UNCHANGED <<storeVars, eventVars, notifications, wsVars, likeResult, pending, deleting, awaiting, received>>
  ELSE
    LET members == groups[g].members
        created == [type |-> "message_created", data |-> messages'[nextMsgId]]
        notified == NotifyMessage(MessageRecipients(members, u),
                                  [notifications |-> notifications,
                                   out |-> BroadcastToGroup(userConnections, connState,
                                                            created,
                                                            MessageAudience(members, u))],
                                  g, now)
    IN
    /\ nextMsgId <= MaxMsgs
    /\ messages' = CreateMessageMsgs(messages, nextMsgId, g, u)
    /\ groups' = CreateMessageGroups(groups, g)
    /\ nextMsgId' = nextMsgId + 1
    /\ notifications' = notified.notifications
    /\ out' = notified.out
    /\ lastOp' = [op |-> "postMessage", status |-> 201, g |-> g, u |-> u,
                  before |-> Len(notifications), m |-> nextMsgId]
    /\ UNCHANGED <<users, eventVars, wsVars, likeResult, boardVars, pending, deleting, awaiting, received>>

\* The group ids of the requests (one of them names no group) and the senders:
\* the first demo user is in every seeded group, the third is not in the first.
RouteGroupIds == GroupIds \cup {"gx"}
Senders == {DemoUserIds[1], DemoUserIds[3]}

NextRoutes ==
  \/ \E g \in RouteGroupIds, u \in Senders, valid \in BOOLEAN : RtPostMessage(g, u, valid)
  \/ \E c \in Conns, u \in Senders : WsConnect(c, u)
  \/ \E c \in Conns : WsClosing(c)
  \/ \E c \in Conns : WsClose(c)

SpecRoutes == Init /\ [][NextRoutes]_vars

\* The notifications the last request stored.
StoredByLastOp ==
  {i \in 1..Len(notifications) : i > lastOp.before}

FramesTo(c, type) ==
  {j \in 1..Len(out) : out[j][1] = c /\ out[j][2].type = type}

\* C11: after a member's message to a group is created, every member of the
\* group whose registered connection is open, the sender included, has been
\* sent exactly one message_created frame, and the frame carries the message.
C11_MessageCreatedReachesMembers ==
  (lastOp.op = "postMessage" /\ lastOp.status = 201) =>
    \A v \in Range(groups[lastOp.g].members) :
      Reachable(v) =>
        /\ Cardinality(FramesTo(userConnections[v], "message_created")) = 1
        /\ \A j \in FramesTo(userConnections[v], "message_created") :
             /\ out[j][2].data = messages[lastOp.m]
             /\ out[j][2].data.authorId = lastOp.u
             /\ out[j][2].data.groupId = lastOp.g

\* A message of a connected member to a group with another connected member:
\* both are sent the frame.
C11_Witness ==
  /\ lastOp.op = "postMessage"
  /\ lastOp.status = 201
  /\ Reachable(lastOp.u)
  /\ FramesTo(userConnections[lastOp.u], "message_created") # {}
  /\ \E v \in Range(groups[lastOp.g].members) \ {lastOp.u} :
       Reachable(v) /\ FramesTo(userConnections[v], "message_created") # {}

\* ------------------------------------------------- POST /api/announcements
\* The users Map in insertion order: seedData stores the admin first.
UserOrder == <<AdminId>> \o DemoUserIds

\* A variant of getAllStudents that returns the users whose role is student.
GetAllStudentsByRole(usrs) ==
  SelectSeq(UserOrder, LAMBDA v : v \in DOMAIN usrs /\ usrs[v].role = "student")

\* getAllStudents: every stored user.
GetAllStudents(usrs) ==
  SelectSeq(UserOrder, LAMBDA v : v \in DOMAIN usrs)

\* The frames broadcastToAll sends: one for each registered connection that is
\* open.
BroadcastToAll(registry, state, message) ==
  LET reached == SelectSeq(UserOrder, LAMBDA v : /\ v \in DOMAIN registry
                                                 /\ state[registry[v]] = "open")
  IN  [i \in 1..Len(reached) |-> <<registry[reached[i]], message>>]

\* The route's loop over the students; acc carries the notifications and the
\* frames.
RECURSIVE NotifyAnnouncement(_, _, _)
NotifyAnnouncement(students, acc, t) ==
  IF students = <<>> THEN acc
  ELSE LET stored == CreateNotification(acc.notifications, Head(students), "announcement",
                                        "/announcements", None, t)
       IN  NotifyAnnouncement(Tail(students),
                              [notifications |-> stored,
                               out |-> acc.out \o BroadcastNotification(userConnections, connState,
                                                                        Head(students),
                                                                        stored[Len(stored)])],
                              t)

Priorities == {"normal", "urgent"}

\* the request of the bearer of a token of user u; valid says whether the body
\* parses
RtCreateAnnouncement(u, priority, valid) ==
  IF u \notin DOMAIN users THEN
    /\ lastOp' = [op |-> "createAnnouncement", status |-> 401]
    /\ out' = <<>>
    /\ UNCHANGED <<storeVars, eventVars, notifications, wsVars, likeResult, pending, deleting, awaiting, received>>
  ELSE IF users[u].role # "admin" THEN
    /\ lastOp' = [op |-> "createAnnouncement", status |-> 403]
    /\ out' = <<>>
    /\ UNCHANGED <<storeVars, eventVars, notifications, wsVars, likeResult, pending, deleting, awaiting, received>>
  ELSE IF ~valid THEN
    /\ lastOp' = [op |-> "createAnnouncement", status |-> 400]
    /\ out' = <<>>
    /\ UNCHANGED <<storeVars, eventVars, notifications, wsVars, likeResult, pending, deleting, awaiting, received>>
  ELSE
    LET announcement == [createdBy |-> u, priority |-> priority]
        notified == NotifyAnnouncement(GetAllStudents(users),
                                       [notifications |-> notifications, out |-> <<>>], now)
    IN
    /\ Len(announcements) < MaxAnns
    /\ announcements' = Append(announcements, announcement)
    /\ notifications' = notified.notifications
    /\ out' = notified.out \o BroadcastToAll(userConnections, connState,
                                             [type |-> "announcement_created",
                                              data |-> announcement])
    /\ lastOp' = [op |-> "createAnnouncement", status |-> 201, before |-> Len(notifications)]
    /\ UNCHANGED <<users, groups, messages, nextMsgId, posts, nextPostId, eventVars, wsVars,
                   likeResult, pending, deleting, awaiting, received>>

StDeleteUser(u) ==
  /\ users' = MapDelete(users, u)
  /\ lastOp' = [op |-> "deleteUser"]
  /\ out' = <<>>
  /\ UNCHANGED <<groups, messages, nextMsgId, boardVars, eventVars, notifications, wsVars,
                 likeResult, pending, deleting, awaiting, received>>

\* The callers of the route, who also connect (the admin and a student), and
\* the users whose records are deleted.
Announcers == {AdminId, DemoUserIds[1]}
Deleted == {AdminId, DemoUserIds[2]}

NextAnnounce ==
  \/ \E u \in Announcers, p \in Priorities, valid \in BOOLEAN : RtCreateAnnouncement(u, p, valid)
  \/ \E u \in Deleted : StDeleteUser(u)
  \/ \E c \in Conns, u \in Announcers : WsConnect(c, u)
  \/ \E c \in Conns : WsClosing(c)
  \/ \E c \in Conns : WsClose(c)

SpecAnnounce == Init /\ [][NextAnnounce]_vars

\* C12: after an admin's announcement is created, every stored user has
\* exactly one notification of type announcement stored by the request, and
\* every stored user whose registered connection is open has been sent exactly
\* one notification frame, which carries that notification.
C12_AnnouncementNotifiesEveryUser ==
  (lastOp.op = "createAnnouncement" /\ lastOp.status = 201) =>
    \A v \in DOMAIN users :
      /\ Cardinality({i \in StoredByLastOp : /\ notifications[i].userId = v
                                             /\ notifications[i].type = "announcement"}) = 1
      /\ Reachable(v) =>
           /\ Cardinality(FramesTo(userConnections[v], "notification")) = 1
           /\ \A j \in FramesTo(userConnections[v], "notification") :
                /\ out[j][2].data \in {notifications[i] : i \in StoredByLastOp}
                /\ out[j][2].data.userId = v

\* An announcement created while the admin and a student are connected and a
\* user record has been deleted.
C12_Witness ==
  /\ lastOp.op = "createAnnouncement"
  /\ lastOp.status = 201
  /\ DOMAIN users # UserIds
  /\ \E v \in DOMAIN users : users[v].role = "student" /\ Reachable(v)
  /\ Reachable(AdminId)

\* C13: a connection whose token is missing or does not verify is closed with
\* code 1008 (policy violation); the step leaves the registry, the typing
\* tracker and its timers as they were, and the registry never holds the
\* connection.
C13_RejectedHandshakeChangesNothing ==
  /\ [](\A c \in Conns :
          (connState[c] = "closed" /\ connUser[c] = None) =>
            \A v \in DOMAIN userConnections : userConnections[v] # c)
  /\ [][\A c \in Conns :
          (connState[c] = "new" /\ connState'[c] = "closed") =>
            /\ lastOp'.op = "reject"
            /\ lastOp'.code = 1008
            /\ userConnections' = userConnections
            /\ typingUsers' = typingUsers
            /\ timers' = timers]_vars

\* A handshake was rejected while the registry held a connection and the
\* tracker an entry.
C13_Witness ==
  /\ lastOp.op = "reject"
  /\ connState[lastOp.c] = "closed"
  /\ DOMAIN userConnections # {}
  /\ \E g \in DOMAIN typingUsers : DOMAIN typingUsers[g] # {}

\* C14: the step that registers a connection of user u sends on it one
\* notifications frame whose list holds every stored notification of u, each
\* once, and nothing else.
C14_HandshakePushesBacklog ==
  lastOp.op = "connect" =>
    /\ Len(out) = 1
    /\ out[1][1] = lastOp.c
    /\ out[1][2].type = "notifications"
    /\ LET data == out[1][2].data
           mine == {i \in 1..Len(notifications) : notifications[i].userId = lastOp.u}
       IN  /\ Range(data) = {notifications[i] : i \in mine}
           /\ Len(data) = Cardinality(mine)

\* A user connects after two notifications were stored for them while they
\* had no connection.
C14_Witness ==
  /\ lastOp.op = "connect"
  /\ lastOp.stored = None
  /\ Len(out[1][2].data) = 2

\* ------------------------------------- message moderation routes (routes)
\* String.prototype.trim on a text: the white space at both ends goes.
RECURSIVE TrimStart(_)
TrimStart(text) ==
  IF text # <<>> /\ Head(text) = " " THEN TrimStart(Tail(text)) ELSE text

RECURSIVE TrimEnd(_)
TrimEnd(text) ==
  IF text # <<>> /\ text[Len(text)] = " " THEN TrimEnd(SubSeq(text, 1, Len(text) - 1)) ELSE text

Trim(text) == TrimEnd(TrimStart(text))

\* editMessage: the content is replaced and editedAt set.
EditMessage(msgs, m, content) ==
  IF m \in DOMAIN msgs THEN [msgs EXCEPT ![m].content = content, ![m].edited = TRUE] ELSE msgs

\* A response that ends a request before it changes or sends anything.
Respond(op, status, m, u) ==
  /\ lastOp' = [op |-> op, status |-> status, m |-> m, u |-> u]
  /\ out' = <<>>
  /\ UNCHANGED <<storeVars, eventVars, notifications, wsVars, likeResult, pending, deleting, awaiting, received>>

\* Variants of the role tests that admit the moderator to editing and pinning
\* and refuse the moderator deleting.
EditRolesWithModerator == {"creator", "admin", "moderator"}
DeleteRolesNoModerator == {"creator", "admin"}
PinRolesWithModerator == {"creator", "admin", "moderator"}

\* The group roles the edit, delete and pin routes let through.
EditRoles == {"creator", "admin"}
DeleteRoles == {"creator", "admin", "moderator"}
PinRoles == {"creator", "admin"}

\* A response that ends an edit request before it changes or sends anything.
RespondEdit(status, m, u, content) ==
  /\ lastOp' = [op |-> "editMessage", status |-> status, m |-> m, u |-> u, body |-> content]
  /\ out' = <<>>
  /\ UNCHANGED <<storeVars, eventVars, notifications, wsVars, likeResult, pending, deleting, awaiting, received>>

\* PATCH /api/messages/:id by user u; content is the body's content, or None
\* when it is missing or not a string
RtEditMessage(m, u, content) ==
  IF u \notin DOMAIN users THEN RespondEdit(401, m, u, content)
  ELSE IF content = None \/ content = <<>> \/ Trim(content) = <<>>
    THEN RespondEdit(400, m, u, content)
  ELSE IF m \notin DOMAIN messages THEN RespondEdit(404, m, u, content)
  ELSE IF messages[m].groupId \notin DOMAIN groups THEN RespondEdit(404, m, u, content)
  ELSE IF /\ messages[m].authorId # u
          /\ GetMemberRole(groups, messages[m].groupId, u) \notin EditRoles
          /\ users[u].role # "admin"
    THEN RespondEdit(403, m, u, content)
  ELSE
    /\ messages' = EditMessage(messages, m, Trim(content))
    /\ out' = BroadcastToGroup(userConnections, connState,
                               [type |-> "message_edited", data |-> messages'[m]],
                               groups[messages[m].groupId].members)
    /\ lastOp' = [op |-> "editMessage", status |-> 200, m |-> m, u |-> u, body |-> content]
    /\ UNCHANGED <<users, groups, nextMsgId, boardVars, eventVars, notifications, wsVars,
                   likeResult, pending, deleting, awaiting, received>>

\* DELETE /api/messages/:id by user u
RtDeleteMessage(m, u) ==
  IF u \notin DOMAIN users THEN Respond("deleteMessage", 401, m, u)
  ELSE IF m \notin DOMAIN messages THEN Respond("deleteMessage", 404, m, u)
  ELSE IF messages[m].groupId \notin DOMAIN groups THEN Respond("deleteMessage", 404, m, u)
  ELSE IF /\ messages[m].authorId # u
          /\ GetMemberRole(groups, messages[m].groupId, u) \notin DeleteRoles
          /\ users[u].role # "admin"
    THEN Respond("deleteMessage", 403, m, u)
  ELSE
    /\ messages' = DeleteMessageMsgs(messages, m)
    /\ groups' = DeleteMessageGroups(messages, groups, m)
    /\ out' = BroadcastToGroup(userConnections, connState,
                               [type |-> "message_deleted",
                                data |-> [messageId |-> m, groupId |-> messages[m].groupId]],
                               groups[messages[m].groupId].members)
    /\ lastOp' = [op |-> "deleteMessage", status |-> 200, m |-> m, u |-> u]
    /\ UNCHANGED <<users, nextMsgId, boardVars, eventVars, notifications, wsVars, likeResult, pending, deleting, awaiting, received>>

\* POST /api/messages/:id/pin by user u
RtPinMessage(m, u) ==
  IF u \notin DOMAIN users THEN Respond("pinMessage", 401, m, u)
  ELSE IF m \notin DOMAIN messages THEN Respond("pinMessage", 404, m, u)
  ELSE IF messages[m].groupId \notin DOMAIN groups THEN Respond("pinMessage", 404, m, u)
  ELSE IF /\ GetMemberRole(groups, messages[m].groupId, u) \notin PinRoles
          /\ users[u].role # "admin"
    THEN Respond("pinMessage", 403, m, u)
  ELSE
    /\ messages' = PinMessageMsgs(messages, m)
    /\ groups' = PinMessageGroups(messages, groups, m)
    /\ out' = BroadcastToGroup(userConnections, connState,
                               [type |-> "message_pinned", data |-> messages'[m]],
                               groups[messages[m].groupId].members)
    /\ lastOp' = [op |-> "pinMessage", status |-> 200, m |-> m, u |-> u]
    /\ UNCHANGED <<users, nextMsgId, boardVars, eventVars, notifications, wsVars, likeResult, pending, deleting, awaiting, received>>

\* DELETE /api/messages/:id/pin by user u
RtUnpinMessage(m, u) ==
  IF u \notin DOMAIN users THEN Respond("unpinMessage", 401, m, u)
  ELSE IF m \notin DOMAIN messages THEN Respond("unpinMessage", 404, m, u)
  ELSE IF messages[m].groupId \notin DOMAIN groups THEN Respond("unpinMessage", 404, m, u)
  ELSE IF /\ GetMemberRole(groups, messages[m].groupId, u) \notin PinRoles
          /\ users[u].role # "admin"
    THEN Respond("unpinMessage", 403, m, u)
  ELSE
    /\ messages' = UnpinMessageMsgs(messages, m)
    /\ groups' = UnpinMessageGroups(messages, groups, m)
    /\ out' = BroadcastToGroup(userConnections, connState,
                               [type |-> "message_unpinned", data |-> messages'[m]],
                               groups[messages[m].groupId].members)
    /\ lastOp' = [op |-> "unpinMessage", status |-> 200, m |-> m, u |-> u]
    /\ UNCHANGED <<users, nextMsgId, boardVars, eventVars, notifications, wsVars, likeResult, pending, deleting, awaiting, received>>

\* PUT /api/admin/users/:id by user u with a role in the body
RtAdminUpdateUser(u, target, role) ==
  IF u \notin DOMAIN users THEN Respond("adminUpdateUser", 401, 0, u)
  ELSE IF users[u].role # "admin" THEN Respond("adminUpdateUser", 403, 0, u)
  ELSE IF target \notin DOMAIN users THEN Respond("adminUpdateUser", 404, 0, u)
  ELSE
    /\ users' = UpdateUser(users, target, [role |-> role])
    /\ lastOp' = [op |-> "adminUpdateUser", status |-> 200, m |-> 0, u |-> u]
    /\ out' = <<>>
    /\ UNCHANGED <<groups, messages, nextMsgId, boardVars, eventVars, notifications, wsVars,
                   likeResult, pending, deleting, awaiting, received>>

\* seedData: any member of membersList wrote a group's message.
InitModerate ==
  /\ InitStore /\ InitEvents /\ InitWs /\ InitRequests /\ InitHistory
  /\ messages \in {f \in SeedMessageMaps :
                     \A m \in DOMAIN f : f[m].likes = 0 /\ f[m].reactions = EmptyMap}

\* The bodies of the edit requests: no content, white space, and a text with
\* white space at its end.  The watcher is the user who connects.
EditBodies == {None, <<" ">>, <<"a", " ">>}
PlatformRoles == {"admin", "student"}
Watcher == DemoUserIds[1]

\* What the three moderation specifications share: the platform role of the
\* admin (the creator of the seeded groups) or of the third demo user is
\* changed, and the watcher connects and disconnects.
Regraded == {AdminId, DemoUserIds[3]}

ModerateContext ==
  \/ \E u \in UserIds, target \in Regraded, role \in PlatformRoles :
       RtAdminUpdateUser(u, target, role)
  \/ \E c \in Conns : WsConnect(c, Watcher)
  \/ \E c \in Conns : WsClose(c)

NextEdit ==
  \/ \E m \in MsgIds, u \in UserIds, content \in EditBodies : RtEditMessage(m, u, content)
  \/ ModerateContext

NextDelete ==
  \/ \E m \in MsgIds, u \in UserIds : RtDeleteMessage(m, u)
  \/ ModerateContext

NextPin ==
  \/ \E m \in MsgIds, u \in UserIds : RtPinMessage(m, u)
  \/ \E m \in MsgIds, u \in UserIds : RtUnpinMessage(m, u)
  \/ ModerateContext

SpecEdit == InitModerate /\ [][NextEdit]_vars
SpecDelete == InitModerate /\ [][NextDelete]_vars
SpecPin == InitModerate /\ [][NextPin]_vars

\* The group role of user u in the group of message m is one of roles.
HasGroupRole(m, u, roles) ==
  LET g == messages[m].groupId IN
  /\ g \in DOMAIN groups
  /\ u \in DOMAIN groups[g].memberRoles
  /\ groups[g].memberRoles[u] \in roles

IsPlatformAdmin(u) ==
  u \in DOMAIN users /\ users[u].role = "admin"

NoFrame(frames, type) ==
  \A j \in 1..Len(frames) : frames[j][2].type # type

\* C15: an edit request changes the messages only when its caller is the
\* message's author, has group role creator or admin in the message's group,
\* or is a platform admin, and then only that message's content; the request
\* of any other caller for an existing message changes no message, sends no
\* message_edited frame and, when its body has a text, is answered 403.
C15_EditNeedsAuthorOrAdmin ==
  [][lastOp'.op = "editMessage" =>
       LET m == lastOp'.m
           u == lastOp'.u
           allowed == /\ m \in DOMAIN messages
                      /\ \/ messages[m].authorId = u
                         \/ HasGroupRole(m, u, {"creator", "admin"})
                         \/ IsPlatformAdmin(u)
       IN  /\ messages' # messages =>
                /\ allowed
                /\ lastOp'.status = 200
                /\ messages' = [messages EXCEPT ![m].content = messages'[m].content,
                                                ![m].edited = TRUE]
           /\ (m \in DOMAIN messages /\ ~allowed) =>
                /\ messages' = messages
                /\ groups' = groups
                /\ NoFrame(out', "message_edited")
                /\ lastOp'.status \in {400, 403}
                /\ (lastOp'.body # None /\ \E i \in 1..Len(lastOp'.body) : lastOp'.body[i] # " ")
                     => lastOp'.status = 403]_vars

\* A moderator who is not the author asked for an edit with a text and got
\* 403 while a member of the group was connected; the message is as seeded.
C15_Witness ==
  /\ lastOp.op = "editMessage"
  /\ lastOp.status = 403
  /\ lastOp.m \in DOMAIN messages
  /\ HasGroupRole(lastOp.m, lastOp.u, {"moderator"})
  /\ messages[lastOp.m].content = SeedContent
  /\ Reachable(Watcher)

\* C16: a delete request removes a message only when its caller is the
\* message's author, has group role creator, admin or moderator in the
\* message's group, or is a platform admin; the request of any other caller
\* for an existing message is answered 403, leaves the messages and the groups
\* (counter and pinned list) as they were and sends no message_deleted frame.
C16_DeleteNeedsAuthorOrModerator ==
  [][lastOp'.op = "deleteMessage" =>
       LET m == lastOp'.m
           u == lastOp'.u
           allowed == /\ m \in DOMAIN messages
                      /\ \/ messages[m].authorId = u
                         \/ HasGroupRole(m, u, {"creator", "admin", "moderator"})
                         \/ IsPlatformAdmin(u)
       IN  /\ (messages' # messages \/ groups' # groups) =>
                /\ allowed
                /\ lastOp'.status = 200
                /\ DOMAIN messages' = DOMAIN messages \ {m}
                /\ \A k \in DOMAIN messages' : messages'[k] = messages[k]
           /\ (m \in DOMAIN messages /\ ~allowed) =>
                /\ lastOp'.status = 403
                /\ messages' = messages
                /\ groups' = groups
                /\ NoFrame(out', "message_deleted")
           /\ (allowed /\ messages[m].groupId \in DOMAIN groups) =>
                m \notin DOMAIN messages']_vars

\* A user who is not the author and has no moderating role asked for the
\* deletion of a pinned message and got 403 while a member of the group was
\* connected.
C16_Witness ==
  /\ lastOp.op = "deleteMessage"
  /\ lastOp.status = 403
  /\ lastOp.m \in DOMAIN messages
  /\ messages[lastOp.m].authorId # lastOp.u
  /\ ~IsPlatformAdmin(lastOp.u)
  /\ Includes(groups[messages[lastOp.m].groupId].pinnedMessages, lastOp.m)
  /\ Reachable(Watcher)

\* C17: a pin or unpin request changes a message's isPinned flag or a group's
\* pinned list only when its caller has group role creator or admin in the
\* message's group or is a platform admin; the request of any other caller
\* (a moderator, a plain member, a non-member) for an existing message is
\* answered 403, changes nothing and sends no message_pinned or
\* message_unpinned frame.
C17_PinNeedsGroupAdmin ==
  [][lastOp'.op \in {"pinMessage", "unpinMessage"} =>
       LET m == lastOp'.m
           u == lastOp'.u
           allowed == /\ m \in DOMAIN messages
                      /\ \/ HasGroupRole(m, u, {"creator", "admin"})
                         \/ IsPlatformAdmin(u)
       IN  /\ (messages' # messages \/ groups' # groups) =>
                /\ allowed
                /\ lastOp'.status = 200
           /\ (m \in DOMAIN messages /\ ~allowed) =>
                /\ lastOp'.status = 403
                /\ messages' = messages
                /\ groups' = groups
                /\ NoFrame(out', "message_pinned")
                /\ NoFrame(out', "message_unpinned")
           /\ (allowed /\ messages[m].groupId \in DOMAIN groups) =>
                messages'[m].isPinned = (lastOp'.op = "pinMessage")]_vars

\* A moderator asked for a pin of an unpinned message and got 403 while a
\* member of the group was connected.
C17_Witness ==
  /\ lastOp.op = "pinMessage"
  /\ lastOp.status = 403
  /\ lastOp.m \in DOMAIN messages
  /\ HasGroupRole(lastOp.m, lastOp.u, {"moderator"})
  /\ ~messages[lastOp.m].isPinned
  /\ Reachable(Watcher)

\* ------------------------------------------------------ group posts
PostIds == 1..MaxPosts

CreateGroupPostPosts(psts, id, g, u) ==
  MapSet(psts, id, [groupId |-> g, authorId |-> u])

CreateGroupPostGroups(grps, g) ==
  IF g \in DOMAIN grps
  THEN [grps EXCEPT ![g].postsCount = grps[g].postsCount + 1]
  ELSE grps

DeleteGroupPostPosts(psts, p) ==
  IF p \in DOMAIN psts THEN MapDelete(psts, p) ELSE psts

\* group.postsCount = Math.max(0, (group.postsCount || 1) - 1), in the group
\* the post names
DeleteGroupPostGroups(psts, grps, p) ==
  IF p \in DOMAIN psts /\ psts[p].groupId \in DOMAIN grps
  THEN LET g == psts[p].groupId
           c == IF grps[g].postsCount = 0 THEN 1 ELSE grps[g].postsCount
       IN [grps EXCEPT ![g].postsCount = Max(0, c - 1)]
  ELSE grps

\* A variant of the post route's loop that leaves out its test of the member id.
PostRecipientsAll(members, u) ==
  members

\* The members the post route's loop notifies: those that are not the author.
PostRecipients(members, u) ==
  FilterOut(members, u)

\* A variant of the loop that sends each notification frame ahead of the
\* frames sent before it.
RECURSIVE NotifyPostSendingFirst(_, _, _, _)
NotifyPostSendingFirst(recipients, acc, g, t) ==
  IF recipients = <<>> THEN acc
  ELSE LET stored == CreateNotification(acc.notifications, Head(recipients), "group",
                                        "/groups/" \o g, None, t)
       IN  NotifyPostSendingFirst(Tail(recipients),
                      [notifications |-> stored,
                       out |-> BroadcastNotification(userConnections, connState,
                                                     Head(recipients),
                                                     stored[Len(stored)]) \o acc.out],
                      g, t)

\* The loop over the recipients; acc carries the notifications and the frames.
RECURSIVE NotifyPost(_, _, _, _)
NotifyPost(recipients, acc, g, t) ==
  IF recipients = <<>> THEN acc
  ELSE LET stored == CreateNotification(acc.notifications, Head(recipients), "group",
                                        "/groups/" \o g, None, t)
       IN  NotifyPost(Tail(recipients),
                      [notifications |-> stored,
                       out |-> acc.out \o BroadcastNotification(userConnections, connState,
                                                                Head(recipients),
                                                                stored[Len(stored)])],
                      g, t)

\* A response that ends a post request before it changes or sends anything.
RespondPost(op, status, g, p, u) ==
  /\ lastOp' = [op |-> op, status |-> status, g |-> g, p |-> p, u |-> u]
  /\ out' = <<>>
  /\ UNCHANGED <<storeVars, eventVars, notifications, wsVars, likeResult, pending, deleting, awaiting, received>>

\* POST /api/groups/:id/posts by user u; valid says whether the body parses
RtCreatePost(g, u, valid) ==
  IF u \notin DOMAIN users THEN RespondPost("createPost", 401, g, 0, u)
  ELSE IF g \notin DOMAIN groups THEN RespondPost("createPost", 404, g, 0, u)
  ELSE IF ~Includes(groups[g].members, u) THEN RespondPost("createPost", 403, g, 0, u)
  ELSE IF ~valid THEN RespondPost("createPost", 400, g, 0, u)
  ELSE
    LET members == groups[g].members
        created == [type |-> "group_post_created", data |-> posts'[nextPostId]]
        notified == NotifyPost(PostRecipients(members, u),
                               [notifications |-> notifications,
                                out |-> BroadcastToGroup(userConnections, connState,
                                                         created, members)],
                               g, now)
    IN
    /\ nextPostId <= MaxPosts
    /\ posts' = CreateGroupPostPosts(posts, nextPostId, g, u)
    /\ groups' = CreateGroupPostGroups(groups, g)
    /\ nextPostId' = nextPostId + 1
    /\ notifications' = notified.notifications
    /\ out' = notified.out
    /\ lastOp' = [op |-> "createPost", status |-> 201, g |-> g, p |-> nextPostId, u |-> u,
                  before |-> Len(notifications)]
    /\ UNCHANGED <<users, messages, nextMsgId, announcements, eventVars, wsVars, likeResult, pending, deleting, awaiting, received>>

\* DELETE /api/groups/:groupId/posts/:postId by user u
RtDeletePost(g, p, u) ==
  IF u \notin DOMAIN users THEN RespondPost("deletePost", 401, g, p, u)
  ELSE IF g \notin DOMAIN groups THEN RespondPost("deletePost", 404, g, p, u)
  ELSE IF p \notin DOMAIN posts THEN RespondPost("deletePost", 404, g, p, u)
  ELSE IF /\ users[u].role # "admin"
          /\ groups[g].createdBy # u
          /\ posts[p].authorId # u
          /\ GetMemberRole(groups, g, u) \notin {"creator", "admin"}
    THEN RespondPost("deletePost", 403, g, p, u)
  ELSE
    /\ posts' = DeleteGroupPostPosts(posts, p)
    /\ groups' = DeleteGroupPostGroups(posts, groups, p)
    /\ out' = BroadcastToGroup(userConnections, connState,
                               [type |-> "group_post_deleted",
                                data |-> [postId |-> p, groupId |-> g]],
                               groups[g].members)
    /\ lastOp' = [op |-> "deletePost", status |-> 200, g |-> g, p |-> p, u |-> u]
    /\ UNCHANGED <<users, messages, nextMsgId, announcements, nextPostId, eventVars,
                   notifications, wsVars, likeResult, pending, deleting, awaiting, received>>

\* The authors of new posts, who also connect; the callers of the delete
\* route; and the member whose group role is changed.
Posters == {DemoUserIds[1], DemoUserIds[3]}
Deleters == {DemoUserIds[2], DemoUserIds[3]}
Regrouped == DemoUserIds[2]

NextPostCreate ==
  \/ \E g \in RouteGroupIds, u \in Posters, valid \in BOOLEAN : RtCreatePost(g, u, valid)
  \/ \E c \in Conns, u \in Posters : WsConnect(c, u)
  \/ \E c \in Conns : WsClosing(c)
  \/ \E c \in Conns : WsClose(c)

SpecPostCreate == Init /\ [][NextPostCreate]_vars

NextPostDelete ==
  \/ \E g \in GroupIds, p \in PostIds, u \in Deleters : RtDeletePost(g, p, u)
  \/ \E g \in RouteGroupIds, u \in Deleters, valid \in BOOLEAN : RtCreatePost(g, u, valid)
  \/ \E g \in GroupIds, role \in AssignableRoles : StSetMemberRole(g, Regrouped, role)
  \/ \E c \in Conns : WsConnect(c, Watcher)
  \/ \E c \in Conns : WsClose(c)

SpecPostDelete == Init /\ [][NextPostDelete]_vars

\* C18: a delete request removes a post only when its caller is the post's
\* author, a platform admin, or the creator or a group-role admin of the group
\* the post belongs to, whatever group id the request names.
C18_DeletePostNeedsRightsInPostsGroup ==
  [][lastOp'.op = "deletePost" =>
       LET p == lastOp'.p
           u == lastOp'.u
       IN  posts' # posts =>
             /\ p \in DOMAIN posts
             /\ \/ posts[p].authorId = u
                \/ IsPlatformAdmin(u)
                \/ /\ posts[p].groupId \in DOMAIN groups
                   /\ \/ groups[posts[p].groupId].createdBy = u
                      \/ /\ u \in DOMAIN groups[posts[p].groupId].memberRoles
                         /\ groups[posts[p].groupId].memberRoles[u]
                              \in {"creator", "admin"}]_vars

\* C20: after a member's post to a group is created, the request has stored
\* exactly one notification of type group for every other member of the group
\* and none for the author, and has sent each of them in a notification frame
\* to its user's connection when that user is reachable, and no other
\* notification frame.
C20_PostNotifiesOtherMembers ==
  (lastOp.op = "createPost" /\ lastOp.status = 201) =>
    LET others == Range(groups[lastOp.g].members) \ {lastOp.u} IN
    /\ \A v \in others :
         Cardinality({i \in StoredByLastOp : notifications[i].userId = v}) = 1
    /\ \A i \in StoredByLastOp :
         /\ notifications[i].userId \in others
         /\ notifications[i].type = "group"
         /\ Reachable(notifications[i].userId) =>
              Cardinality({j \in 1..Len(out) :
                             out[j] = <<userConnections[notifications[i].userId],
                                        [type |-> "notification",
                                         data |-> notifications[i]]>>}) = 1
    /\ \A j \in 1..Len(out) :
         out[j][2].type = "notification" =>
           \E i \in StoredByLastOp :
             /\ out[j][2].data = notifications[i]
             /\ out[j][1] = userConnections[notifications[i].userId]

\* A post of a connected member to a group with another connected member, who
\* is sent the notification frame.
C20_Witness ==
  /\ lastOp.op = "createPost"
  /\ lastOp.status = 201
  /\ Reachable(lastOp.u)
  /\ \E j \in 1..Len(out) :
       /\ out[j][2].type = "notification"
       /\ out[j][2].data.type = "group"
       /\ out[j][2].data.userId # lastOp.u
       /\ connUser[out[j][1]] = out[j][2].data.userId

\* ------------------------------- requests that interleave at their awaits
\* The status recorded for a request that has not answered yet.
Suspended == 0

\* POST /api/groups/:id/messages up to its await of getMemberRole: the group
\* is loaded and the caller's membership tested, then the handler is suspended.
RtPostMessageBegin(g, u) ==
  /\ u \notin DOMAIN pending
  /\ out' = <<>>
  /\ IF u \notin DOMAIN users THEN
       /\ lastOp' = [op |-> "postMessage", status |-> 401, g |-> g, u |-> u]
       /\ UNCHANGED pending
     ELSE IF g \notin DOMAIN groups THEN
       /\ lastOp' = [op |-> "postMessage", status |-> 404, g |-> g, u |-> u]
       /\ UNCHANGED pending
     ELSE IF ~Includes(groups[g].members, u) THEN
       /\ lastOp' = [op |-> "postMessage", status |-> 403, g |-> g, u |-> u]
       /\ UNCHANGED pending
     ELSE
       /\ lastOp' = [op |-> "postMessage", status |-> Suspended, g |-> g, u |-> u]
       /\ pending' = MapSet(pending, u, g)
  /\ UNCHANGED <<storeVars, eventVars, notifications, wsVars, likeResult, deleting, awaiting, received>>

\* The same handler from the resumption after getMemberRole to its response;
\* group is the object loaded before the suspension, which the store still
\* holds, so group.members is read as the store has it now.
RtPostMessageResume(u, valid) ==
  /\ u \in DOMAIN pending
  /\ pending[u] \in DOMAIN groups
  /\ pending' = MapDelete(pending, u)
  /\ LET g == pending[u] IN
     IF ~valid THEN
       /\ lastOp' = [op |-> "postMessage", status |-> 400, g |-> g, u |-> u]
       /\ out' = <<>>
       /\ UNCHANGED <<storeVars, eventVars, notifications, wsVars, likeResult, deleting, awaiting, received>>
     ELSE
       LET members == groups[g].members
           created == [type |-> "message_created", data |-> messages'[nextMsgId]]
           notified == NotifyMessage(MessageRecipients(members, u),
                                     [notifications |-> notifications,
                                      out |-> BroadcastToGroup(userConnections, connState,
                                                               created,
                                                               MessageAudience(members, u))],
                                     g, now)
       IN
       /\ nextMsgId <= MaxMsgs
       /\ messages' = CreateMessageMsgs(messages, nextMsgId, g, u)
       /\ groups' = CreateMessageGroups(groups, g)
       /\ nextMsgId' = nextMsgId + 1
       /\ notifications' = notified.notifications
       /\ out' = notified.out
       /\ lastOp' = [op |-> "postMessage", status |-> 201, g |-> g, u |-> u]
       /\ UNCHANGED <<users, boardVars, eventVars, wsVars, likeResult, deleting, awaiting, received>>

\* POST /api/messages/:id/like: the membership test and the call of likeMessage,
\* which writes before its first await, are in one synchronous stretch
RtLikeMessage(m, u) ==
  IF u \notin DOMAIN users THEN Respond("like", 401, m, u)
  ELSE IF m \notin DOMAIN messages THEN Respond("like", 404, m, u)
  ELSE IF messages[m].groupId \notin DOMAIN groups THEN Respond("like", 404, m, u)
  ELSE IF ~Includes(groups[messages[m].groupId].members, u) THEN Respond("like", 403, m, u)
  ELSE
    /\ messages' = LikeMessage(messages, m, u)
    /\ likeResult' = [likeResult EXCEPT ![<<m, u>>] =
                        IF Includes(messages'[m].likedBy, u) THEN "liked" ELSE "unliked"]
    /\ out' = BroadcastToGroup(userConnections, connState,
                               [type |-> "message_liked", data |-> messages'[m]],
                               groups[messages[m].groupId].members)
    /\ lastOp' = [op |-> "like", status |-> 200, m |-> m, u |-> u]
    /\ UNCHANGED <<users, groups, nextMsgId, boardVars, eventVars, notifications, wsVars,
                   pending, deleting, awaiting, received>>

\* POST /api/messages/:id/react with emoji e of the body, None when it has none
RtReactMessage(m, e, u) ==
  IF u \notin DOMAIN users THEN Respond("react", 401, m, u)
  ELSE IF e = None THEN Respond("react", 400, m, u)
  ELSE IF m \notin DOMAIN messages THEN Respond("react", 404, m, u)
  ELSE IF messages[m].groupId \notin DOMAIN groups THEN Respond("react", 404, m, u)
  ELSE IF ~Includes(groups[messages[m].groupId].members, u) THEN Respond("react", 403, m, u)
  ELSE
    /\ messages' = AddReaction(messages, m, e, u)
    /\ out' = BroadcastToGroup(userConnections, connState,
                               [type |-> "message_reacted", data |-> messages'[m]],
                               groups[messages[m].groupId].members)
    /\ lastOp' = [op |-> "react", status |-> 200, m |-> m, u |-> u]
    /\ UNCHANGED <<users, groups, nextMsgId, boardVars, eventVars, notifications, wsVars,
                   likeResult, pending, deleting, awaiting, received>>

\* POST /api/groups/:id/leave: leaveGroup writes the group before its first
\* await, and the frame goes to the members that are left
RtLeaveGroup(g, u) ==
  /\ groups' = IF u \in DOMAIN users THEN LeaveGroup(groups, g, u) ELSE groups
  /\ out' = IF u \in DOMAIN users /\ g \in DOMAIN groups
            THEN BroadcastToGroup(userConnections, connState,
                                  [type |-> "member_left",
                                   data |-> [groupId |-> g, userId |-> u]],
                                  groups'[g].members)
            ELSE <<>>
  /\ lastOp' = [op |-> "leave",
                status |-> IF u \notin DOMAIN users THEN 401
                           ELSE IF g \notin DOMAIN groups THEN 404 ELSE 200,
                g |-> g, u |-> u]
  /\ UNCHANGED <<users, messages, nextMsgId, boardVars, eventVars, notifications, wsVars,
                 likeResult, pending, deleting, awaiting, received>>

\* The caller of the interleaved requests, the group ids and message ids they
\* name (one of each is absent at first), the emoji of a react body, and the
\* member that is connected.
Racers == {DemoUserIds[1]}
RaceGroupIds == {"g1", "gx"}
RaceMsgIds == {SeedMsgOf["g1"], MaxMsgs}
ReactBodies == {"thumb", None}
Listener == DemoUserIds[2]

NextRace ==
  \/ \E g \in RaceGroupIds, u \in Racers : RtPostMessageBegin(g, u)
  \/ \E u \in Racers, valid \in BOOLEAN : RtPostMessageResume(u, valid)
  \/ \E m \in RaceMsgIds, u \in Racers : RtLikeMessage(m, u)
  \/ \E m \in RaceMsgIds, e \in ReactBodies, u \in Racers : RtReactMessage(m, e, u)
  \/ \E g \in RaceGroupIds, u \in Racers : RtLeaveGroup(g, u)
  \/ \E g \in RaceGroupIds, u \in Racers : StJoinGroup(g, u)
  \/ \E c \in Conns : WsConnect(c, Listener)
  \/ \E c \in Conns : WsClose(c)

SpecRace == Init /\ [][NextRace]_vars

RtDeleteMessageBegin(m, u) ==
  /\ u \notin DOMAIN deleting
  /\ out' = <<>>
  /\ IF u \notin DOMAIN users THEN
       /\ lastOp' = [op |-> "deleteMessage", status |-> 401, m |-> m, u |-> u]
       /\ UNCHANGED deleting
     ELSE IF m \notin DOMAIN messages THEN
       /\ lastOp' = [op |-> "deleteMessage", status |-> 404, m |-> m, u |-> u]
       /\ UNCHANGED deleting
     ELSE
       /\ lastOp' = [op |-> "deleteMessage", status |-> Suspended, m |-> m, u |-> u]
       /\ deleting' = MapSet(deleting, u, [id |-> m, groupId |-> messages[m].groupId,
                                           authorId |-> messages[m].authorId])
  /\ UNCHANGED <<storeVars, eventVars, notifications, wsVars, likeResult, pending, awaiting, received>>

\* The same handler from the resumption after getGroup to its response: the
\* group and role tests, the call of deleteMessage, whose result is dropped,
\* and the broadcast.
RtDeleteMessageResume(u) ==
  /\ u \in DOMAIN deleting
  /\ deleting' = MapDelete(deleting, u)
  /\ LET message == deleting[u]
         m == message.id
     IN
     IF message.groupId \notin DOMAIN groups THEN
       /\ lastOp' = [op |-> "deleteMessage", status |-> 404, m |-> m, u |-> u]
       /\ out' = <<>>
       /\ UNCHANGED <<storeVars, eventVars, notifications, wsVars, likeResult, pending, awaiting, received>>
     ELSE IF /\ message.authorId # u
             /\ GetMemberRole(groups, message.groupId, u) \notin DeleteRoles
             /\ users[u].role # "admin"
     THEN
       /\ lastOp' = [op |-> "deleteMessage", status |-> 403, m |-> m, u |-> u]
       /\ out' = <<>>
       /\ UNCHANGED <<storeVars, eventVars, notifications, wsVars, likeResult, pending, awaiting, received>>
     ELSE
       /\ messages' = DeleteMessageMsgs(messages, m)
       /\ groups' = DeleteMessageGroups(messages, groups, m)
       /\ out' = BroadcastToGroup(userConnections, connState,
                                  [type |-> "message_deleted",
                                   data |-> [messageId |-> m, groupId |-> message.groupId]],
                                  groups[message.groupId].members)
       /\ lastOp' = [op |-> "deleteMessage", status |-> 200, m |-> m, u |-> u]
       /\ UNCHANGED <<users, nextMsgId, boardVars, eventVars, notifications, wsVars,
                      likeResult, pending, awaiting, received>>

NextDeleteRace ==
  \/ \E m \in MsgIds, u \in UserIds : RtDeleteMessageBegin(m, u)
  \/ \E u \in UserIds : RtDeleteMessageResume(u)
  \/ \E c \in Conns : WsConnect(c, Listener)
  \/ \E c \in Conns : WsClose(c)

SpecDeleteRace == Init /\ [][NextDeleteRace]_vars

\* C21: a delete request whose message no longer exists when the deletion is
\* applied is refused (404, or 401 or 403 when the caller is refused first) and
\* sends no frame, so that of two interleaved delete requests for one message
\* only one is answered 200 and only one message_deleted broadcast is made.
C21_DeleteOfMissingMessageIsNotFound ==
  [][(lastOp'.op = "deleteMessage" /\ lastOp'.status # Suspended
        /\ lastOp'.m \notin DOMAIN messages) =>
       /\ lastOp'.status \in {401, 403, 404}
       /\ out' = <<>>]_vars

\* ------------------------------------------- reminders of cancelled events
\* updateEvent(id, { cancelled: true }): the updates are spread over the event
CancelEvent(evts, e) ==
  IF e \in DOMAIN evts THEN [evts EXCEPT ![e].cancelled = TRUE] ELSE evts

StCancelEvent(e) ==
  /\ events' = CancelEvent(events, e)
  /\ lastOp' = [op |-> "events"]
  /\ out' = <<>>
  /\ UNCHANGED <<storeVars, eventRegistrations, sentReminders, now, notifications, wsVars,
                 likeResult, pending, deleting, awaiting, received>>

NextCancel ==
  \/ EvSweep
  \/ StCancelEvent("e1")
  \/ \E d \in EventDates : StUpdateEvent("e1", d)
  \/ \E u \in Attendees : StRegisterForEvent("e1", u)
  \/ \E u \in Attendees : StUnregisterFromEvent("e1", u)

SpecCancel == InitReminders /\ [][NextCancel]_vars

\* The reminder notifications of ns for event e, user u and reminder type.
RemindersIn(ns, e, u, type) ==
  {i \in 1..Len(ns) : /\ ns[i].type = "reminder"
                      /\ ns[i].eventId = e
                      /\ ns[i].userId = u
                      /\ ns[i].reminderType = type}

C23_ReminderNeedsRegistrationRecordAndPreference ==
  [][lastOp'.op = "sweep" =>
       \A e \in EventIds, u \in UserIds, type \in ReminderTypes :
         LET key == ReminderKey(e, u, type)
             created == RemindersIn(notifications', e, u, type)
                          # RemindersIn(notifications, e, u, type)
         IN  /\ created =>
                  /\ e \in DOMAIN eventRegistrations
                  /\ Includes(eventRegistrations[e], u)
                  /\ key \notin sentReminders
                  /\ u \in DOMAIN users
                  /\ users[u].notificationPreferences[
                       IF type = "24h" THEN "eventReminders24h" ELSE "eventReminders1h"]
                  /\ key \in sentReminders'
             /\ (u \in DOMAIN users
                   /\ ~users[u].notificationPreferences[
                        IF type = "24h" THEN "eventReminders24h" ELSE "eventReminders1h"]) =>
                  /\ ~created
                  /\ (key \in sentReminders') = (key \in sentReminders)]_vars

\* A pass that has just created a 24h reminder for one registered user and
\* none for another registered user whose 24h preference is off.
C23_Witness ==
  /\ lastOp.op = "sweep"
  /\ \E e \in DOMAIN events, u \in UserIds, v \in UserIds :
       /\ e \in DOMAIN eventRegistrations
       /\ Includes(eventRegistrations[e], u)
       /\ Includes(eventRegistrations[e], v)
       /\ InWindow24h(events[e].date, now)
       /\ \E i \in RemindersIn(notifications, e, u, "24h") : notifications[i].createdAt = now
       /\ ~users[v].notificationPreferences["eventReminders24h"]
       /\ RemindersIn(notifications, e, v, "24h") = {}
       /\ ReminderKey(e, v, "24h") \notin sentReminders

\* --------------------------------------------- notification preferences
\* The number of registration confirmations the requests may store.
MaxConfirmations == 2

\* A variant of the route's test that does not read the preference.
RegistrationPrefIgnored(usrs, u) ==
  u \in DOMAIN usrs

\* user && user.notificationPreferences.eventRegistration
RegistrationPrefOn(usrs, u) ==
  u \in DOMAIN usrs /\ usrs[u].notificationPreferences.eventRegistration

\* POST /api/events/:id/register by user u
RtRegisterForEvent(e, u) ==
  IF u \notin DOMAIN users THEN
    /\ lastOp' = [op |-> "register", status |-> 401, e |-> e, u |-> u]
    /\ out' = <<>>
    /\ UNCHANGED <<storeVars, eventVars, notifications, wsVars, likeResult, pending, deleting, awaiting, received>>
  ELSE IF ~CanRegister(events, e) THEN
    /\ lastOp' = [op |-> "register", status |-> 400, e |-> e, u |-> u]
    /\ out' = <<>>
    /\ UNCHANGED <<storeVars, eventVars, notifications, wsVars, likeResult, pending, deleting, awaiting, received>>
  ELSE
    LET stored == CreateNotification(notifications, u, "event", "/events/" \o e, e, now)
        update == BroadcastToAll(userConnections, connState,
                                 [type |-> "event_registration_update", data |-> events'[e]])
    IN
    /\ eventRegistrations' = RegisterForEventRegs(eventRegistrations, events, e, u)
    /\ events' = RegisterForEventEvents(eventRegistrations, events, e, u)
    /\ IF RegistrationPrefOn(users, u)
         THEN /\ Cardinality({i \in 1..Len(notifications) : notifications[i].type = "event"})
                   < MaxConfirmations
              /\ notifications' = stored
              /\ out' = BroadcastNotification(userConnections, connState, u,
                                              stored[Len(stored)]) \o update
         ELSE /\ notifications' = notifications
              /\ out' = update
    /\ lastOp' = [op |-> "register", status |-> 200, e |-> e, u |-> u]
    /\ UNCHANGED <<storeVars, sentReminders, now, wsVars, likeResult, pending, deleting, awaiting, received>>

\* updateUser with new values for all three preferences
StUpdatePreferences(u, on) ==
  /\ users' = UpdateUser(users, u,
                [notificationPreferences |->
                   [eventRegistration |-> on, eventReminders24h |-> on,
                    eventReminders1h |-> on]])
  /\ lastOp' = [op |-> "updateUser"]
  /\ out' = <<>>
  /\ UNCHANGED <<groups, messages, nextMsgId, boardVars, eventVars, notifications, wsVars,
                 likeResult, pending, deleting, awaiting, received>>

\* The user that registers, changes preferences and connects, and the event
\* ids of the requests (one names no event).
Registrants == {DemoUserIds[2]}
RegisterEventIds == {"e1", "ex"}

NextPrefs ==
  \/ \E e \in RegisterEventIds, u \in Registrants : RtRegisterForEvent(e, u)
  \/ \E u \in Registrants, on \in BOOLEAN : StUpdatePreferences(u, on)
  \/ RtCreateAnnouncement(AdminId, "normal", TRUE)
  \/ RtCreatePost("g1", DemoUserIds[1], TRUE)
  \/ \E c \in Conns, u \in Registrants : WsConnect(c, u)
  \/ \E c \in Conns : WsClose(c)

SpecPrefs == InitReminders /\ [][NextPrefs]_vars

\* C24: a successful registration stores and pushes a confirmation for the
\* registering user exactly when that user's eventRegistration preference is
\* on, and stores and pushes none when it is off; an announcement stores and
\* pushes a notification for every user, and a group post for every other
\* member, whatever their preferences are.
C24_OnlyEventNotificationsAreGated ==
  [][LET new == (Len(notifications) + 1)..Len(notifications')
         pushed(i) == \E j \in 1..Len(out') :
                        /\ out'[j][2] = [type |-> "notification", data |-> notifications'[i]]
                        /\ out'[j][1] = userConnections[notifications'[i].userId]
         targeted(v) == {i \in new : notifications'[i].userId = v}
         delivered(v) == \A i \in targeted(v) : Reachable(v) => pushed(i)
     IN
     /\ (lastOp'.op = "register" /\ lastOp'.status = 200) =>
          IF users[lastOp'.u].notificationPreferences.eventRegistration
            THEN /\ Cardinality(new) = 1
                 /\ \A i \in new : /\ notifications'[i].userId = lastOp'.u
                                   /\ notifications'[i].type = "event"
                 /\ delivered(lastOp'.u)
            ELSE /\ new = {}
                 /\ \A j \in 1..Len(out') : out'[j][2].type # "notification"
     /\ (lastOp'.op = "createAnnouncement" /\ lastOp'.status = 201) =>
          \A v \in DOMAIN users :
            /\ Cardinality(targeted(v)) = 1
            /\ \A i \in targeted(v) : notifications'[i].type = "announcement"
            /\ delivered(v)
     /\ (lastOp'.op = "createPost" /\ lastOp'.status = 201) =>
          \A v \in Range(groups[lastOp'.g].members) \ {lastOp'.u} :
            /\ Cardinality(targeted(v)) = 1
            /\ \A i \in targeted(v) : notifications'[i].type = "group"
            /\ delivered(v)]_vars

\* An announcement has just been pushed to a connected user whose preferences
\* are all off and whose registration stored no confirmation.
C24_Witness ==
  /\ lastOp.op = "createAnnouncement"
  /\ lastOp.status = 201
  /\ \E v \in Registrants :
       /\ ~users[v].notificationPreferences.eventRegistration
       /\ ~users[v].notificationPreferences.eventReminders24h
       /\ "e1" \in DOMAIN eventRegistrations
       /\ Includes(eventRegistrations["e1"], v)
       /\ \A i \in 1..Len(notifications) :
            notifications[i].userId = v => notifications[i].type # "event"
       /\ Reachable(v)
       /\ \E j \in 1..Len(out) :
            /\ out[j][1] = userConnections[v]
            /\ out[j][2].type = "notification"
            /\ out[j][2].data.userId = v
            /\ out[j][2].data.type = "announcement"

\* ------------------------------------------------------ the creator role
\* PATCH /api/groups/:id/members/:memberId/role by user u with the body's role
RtSetMemberRole(g, u, member, role) ==
  LET respond(status) ==
        /\ lastOp' = [op |-> "setRole", status |-> status, g |-> g, u |-> u]
        /\ out' = <<>>
        /\ UNCHANGED <<storeVars, eventVars, notifications, wsVars, likeResult, pending,
                       deleting, awaiting, received>>
  IN
  IF u \notin DOMAIN users THEN respond(401)
  ELSE IF role \notin AssignableRoles THEN respond(400)
  ELSE IF g \notin DOMAIN groups THEN respond(404)
  ELSE IF GetMemberRole(groups, g, u) # "creator" /\ users[u].role # "admin" THEN respond(403)
  ELSE
    /\ groups' = SetMemberRole(groups, g, member, role)
    /\ out' = BroadcastToGroup(userConnections, connState,
                               [type |-> "member_role_changed",
                                data |-> [groupId |-> g, memberId |-> member, role |-> role]],
                               groups'[g].members)
    /\ lastOp' = [op |-> "setRole", status |-> 200, g |-> g, u |-> u]
    /\ UNCHANGED <<users, messages, nextMsgId, boardVars, eventVars, notifications, wsVars,
                   likeResult, pending, deleting, awaiting, received>>

\* The callers and the targets of the role and membership requests: the
\* seeded creator of every group and another member; and the roles a body
\* may carry.
RoleCallers == {AdminId, DemoUserIds[2]}
BodyRoles == {"admin", "member", "creator"}

NextCreator ==
  \/ \E g \in RaceGroupIds, u \in RoleCallers, member \in RoleCallers, role \in BodyRoles :
       RtSetMemberRole(g, u, member, role)
  \/ \E g \in RaceGroupIds, u \in RoleCallers : RtLeaveGroup(g, u)
  \/ \E g \in RaceGroupIds, u \in RoleCallers : StJoinGroup(g, u)
  \/ \E c \in Conns : WsConnect(c, Listener)

SpecCreator == Init /\ [][NextCreator]_vars

\* C25: in every reachable state every group has exactly one member whose
\* role is creator.
C25_ExactlyOneCreator ==
  \A g \in DOMAIN groups :
    Cardinality({u \in DOMAIN groups[g].memberRoles :
                   groups[g].memberRoles[u] = "creator"}) = 1

C27_OnePendingTimerPerEntry ==
  \A g \in GroupIds, u \in UserIds :
    /\ Cardinality({n \in TimerIds : <<g, u, n>> \in timers}) <= 1
    /\ \A n \in TimerIds :
         <<g, u, n>> \in timers => (HasTypingEntry(g, u) /\ typingUsers[g][u] = n)

\* A typing_start has just replaced the timer of an existing entry: the entry
\* holds the second handle, which is the only one pending.
C27_Witness ==
  /\ lastOp.op = "typing_start"
  /\ lastOp.found
  /\ HasTypingEntry(lastOp.g, lastOp.u)
  /\ typingUsers[lastOp.g][lastOp.u] = 1
  /\ <<lastOp.g, lastOp.u, 1>> \in timers
  /\ <<lastOp.g, lastOp.u, 0>> \notin timers

\* C28: a typing_start for a pair that already has a typing entry sends no
\* frame, and a typing_stop for a pair without a typing entry sends no frame.
C28_TypingUpdateOnlyOnTransition ==
  [][/\ (lastOp'.op = "typing_start" /\ HasTypingEntry(lastOp'.g, lastOp'.u)) => out' = <<>>
     /\ (lastOp'.op = "typing_stop" /\ ~HasTypingEntry(lastOp'.g, lastOp'.u)) => out' = <<>>]_vars

\* C29: when the timer of a pair fires, the entry is removed and the frames
\* sent are those a typing_stop of the pair sends: the updated list to every
\* reachable member of the group other than the user, and no frame to the user.
C29_ExpiryEqualsStop ==
  [][lastOp'.op = "timer" =>
       LET g == lastOp'.g
           u == lastOp'.u
       IN  /\ ~(g \in DOMAIN typingUsers' /\ u \in DOMAIN typingUsers'[g])
           /\ out' = BroadcastToGroup(userConnections, connState,
                                      TypingUpdate(g, typingUsers'[g]),
                                      FilterOut(GroupObject(g).members, u))]_vars

\* DELETE /api/admin/groups/:id by user u
RtAdminDeleteGroup(g, u) ==
  LET respond(status) ==
        /\ lastOp' = [op |-> "adminDeleteGroup", status |-> status, g |-> g]
        /\ out' = <<>>
        /\ UNCHANGED <<storeVars, eventVars, notifications, wsVars, likeResult, pending,
                       deleting, awaiting, received>>
  IN
  IF u \notin DOMAIN users THEN respond(401)
  ELSE IF users[u].role # "admin" THEN respond(403)
  ELSE IF g \notin DOMAIN groups THEN respond(404)
  ELSE
    /\ groups' = DeleteGroup(groups, g)
    /\ detachedGroups' = MapSet(detachedGroups, g, groups[g])
    /\ out' = BroadcastToAll(userConnections, connState,
                             [type |-> "group_deleted", data |-> [id |-> g]])
    /\ lastOp' = [op |-> "adminDeleteGroup", status |-> 200, g |-> g]
    /\ UNCHANGED <<users, messages, nextMsgId, boardVars, eventVars, notifications,
                   userConnections, connUser, connState, typingUsers, timers, likeResult,
                   pending, deleting, awaiting, received>>

NextWSDelete ==
  \/ \E c \in Conns, u \in WsUsers : WsConnect(c, u)
  \/ \E c \in Conns, g \in GroupIds : WsTypingStart(c, g)
  \/ \E c \in Conns, g \in GroupIds : WsTypingStop(c, g)
  \/ \E g \in GroupIds, u \in WsUsers, n \in TimerIds : WsTimerFire(g, u, n)
  \/ \E g \in GroupIds, u \in Announcers : RtAdminDeleteGroup(g, u)
  \/ \E c \in Conns : WsClose(c)

SpecWSDelete == Init /\ [][NextWSDelete]_vars

\* C30: no step sends a typing_update frame for a group that is not in the
\* store.
C30_NoTypingUpdateForDeletedGroup ==
  \A i \in 1..Len(out) :
    out[i][2].type = "typing_update" => out[i][2].groupId \in DOMAIN groups

\* ------------------------------------------- a pass over a missing user record
\* The users whose records are deleted while they are registered.
Unrecorded == Attendees

NextSkip ==
  \/ EvSweep
  \/ StCreateEvent("e2", Window24hHigh + 4)
  \/ \E u \in Unrecorded : StDeleteUser(u)
  \/ \E e \in EventIds, u \in Attendees : StRegisterForEvent(e, u)
  \/ \E u \in Attendees : StUnregisterFromEvent("e1", u)

SpecSkip == InitReminders /\ [][NextSkip]_vars

\* C31: after a sweep pass, every event inside a reminder window has a reminder
\* of that type for each of its registered users who has a user record and the
\* preference on, whichever registered users of that or of another event have
\* no user record; the pass creates no reminder for a user without a record.
C31_MissingUserIsSkipped ==
  lastOp.op = "sweep" =>
    /\ \A e \in DOMAIN events, type \in ReminderTypes, u \in DOMAIN users :
         (/\ IF type = "24h" THEN InWindow24h(events[e].date, now)
                             ELSE InWindow1h(events[e].date, now)
          /\ e \in DOMAIN eventRegistrations
          /\ Includes(eventRegistrations[e], u)
          /\ users[u].notificationPreferences[IF type = "24h" THEN "eventReminders24h"
                                                              ELSE "eventReminders1h"])
         => Cardinality(RemindersIn(notifications, e, u, type)) = 1
    /\ \A i \in 1..Len(notifications) :
         notifications[i].createdAt = now => notifications[i].userId \in DOMAIN users

\* A pass has just created a reminder for a user registered after a user
\* without a record in the same event, and a reminder of an event swept after
\* an event whose only registered user has no record.
C31_Witness ==
  /\ lastOp.op = "sweep"
  /\ \E e \in DOMAIN eventRegistrations, i, j \in 1..2 :
       /\ i < j /\ j <= Len(eventRegistrations[e])
       /\ eventRegistrations[e][i] \notin DOMAIN users
       /\ \E n \in 1..Len(notifications) :
            /\ notifications[n].createdAt = now
            /\ notifications[n].eventId = e
            /\ notifications[n].userId = eventRegistrations[e][j]
  /\ "e1" \in DOMAIN eventRegistrations
  /\ Len(eventRegistrations["e1"]) >= 1
  /\ eventRegistrations["e1"][1] \notin DOMAIN users
  /\ \E n \in 1..Len(notifications) :
       notifications[n].createdAt = now /\ notifications[n].eventId = "e2"

\* ------------------------------------------- reminders and open sessions
NextLiveSweep ==
  \/ EvSweep
  \/ \E d \in EventDates : StUpdateEvent("e1", d)
  \/ \E u \in Attendees : StRegisterForEvent("e1", u)
  \/ \E c \in Conns, u \in Attendees : WsConnect(c, u)
  \/ \E c \in Conns : WsClose(c)

SpecLiveSweep == InitReminders /\ [][NextLiveSweep]_vars

\* C32: a sweep pass sends, for every reminder notification it creates for a
\* user whose registered connection is open, a notification frame with that
\* reminder to that connection.
C32_ReminderIsPushed ==
  [][lastOp'.op = "sweep" =>
       \A i \in (Len(notifications) + 1)..Len(notifications') :
         Reachable(notifications'[i].userId) =>
           \E j \in 1..Len(out') :
             /\ out'[j][1] = userConnections[notifications'[i].userId]
             /\ out'[j][2] = [type |-> "notification", data |-> notifications'[i]]]_vars

\* ------------------------------------------- the groups' counters
\* The callers whose create and delete requests interleave: a member who is
\* the seeded messages' author, and the platform admin.
Counted == {DemoUserIds[1], AdminId}

NextCounts ==
  \/ RtPostMessageBegin("g1", DemoUserIds[1])
  \/ RtPostMessageResume(DemoUserIds[1], TRUE)
  \/ \E m \in RaceMsgIds, u \in Counted : RtDeleteMessageBegin(m, u)
  \/ \E u \in Counted : RtDeleteMessageResume(u)
  \/ RtCreatePost("g1", DemoUserIds[1], TRUE)
  \/ \E p \in PostIds : RtDeletePost("g1", p, DemoUserIds[1])

SpecCounts == Init /\ [][NextCounts]_vars

MessagesOf(msgs, g) == {m \in DOMAIN msgs : msgs[m].groupId = g}
PostsOf(psts, g) == {p \in DOMAIN psts : psts[p].groupId = g}

\* C33: in every state each group's messagesCount is the number of stored
\* messages of the group and its postsCount the number of its stored posts,
\* neither below 0; and every step that stores a new message or post of a
\* group adds exactly 1 to that counter, every step that removes one
\* subtracts exactly 1, and every other step leaves the counter as it is.
C33_CountersMatchStore ==
  /\ [](\A g \in DOMAIN groups :
         /\ groups[g].messagesCount = Cardinality(MessagesOf(messages, g))
         /\ groups[g].postsCount = Cardinality(PostsOf(posts, g))
         /\ groups[g].messagesCount >= 0
         /\ groups[g].postsCount >= 0)
  /\ [][\A g \in DOMAIN groups \cap DOMAIN groups' :
         /\ groups'[g].messagesCount - groups[g].messagesCount =
              Cardinality(MessagesOf(messages', g) \ MessagesOf(messages, g))
              - Cardinality(MessagesOf(messages, g) \ MessagesOf(messages', g))
         /\ Cardinality(MessagesOf(messages', g) \ MessagesOf(messages, g))
              + Cardinality(MessagesOf(messages, g) \ MessagesOf(messages', g)) <= 1
         /\ groups'[g].postsCount - groups[g].postsCount =
              Cardinality(PostsOf(posts', g) \ PostsOf(posts, g))
              - Cardinality(PostsOf(posts, g) \ PostsOf(posts', g))
         /\ Cardinality(PostsOf(posts', g) \ PostsOf(posts, g))
              + Cardinality(PostsOf(posts, g) \ PostsOf(posts', g)) <= 1]_vars

\* A delete request has just removed the last message of a group, whose
\* counter is 0, while a create request for that group is suspended and
\* another delete request for the same message is suspended too.
C33_Witness ==
  /\ lastOp.op = "deleteMessage"
  /\ lastOp.status = 200
  /\ \E g \in DOMAIN groups :
       /\ groups[g].messagesCount = 0
       /\ \E u \in DOMAIN pending : pending[u] = g
       /\ \E u \in DOMAIN deleting : deleting[u].id = lastOp.m /\ deleting[u].groupId = g

\* ------------------------------------------- the order of message_created frames
\* POST /api/groups/:id/messages from the resumption after getMemberRole up to
\* its await of createMessage: the body is parsed and the message stored, then
\* the handler is suspended holding the message.
RtPostMessageCreate(u, valid) ==
  /\ u \in DOMAIN pending
  /\ pending[u] \in DOMAIN groups
  /\ pending' = MapDelete(pending, u)
  /\ out' = <<>>
  /\ LET g == pending[u] IN
     IF ~valid THEN
       /\ lastOp' = [op |-> "postMessage", status |-> 400, g |-> g, u |-> u]
       /\ UNCHANGED <<storeVars, eventVars, notifications, wsVars, likeResult, deleting,
                      awaiting, received>>
     ELSE
       /\ nextMsgId <= MaxOrdered
       /\ messages' = CreateMessageMsgs(messages, nextMsgId, g, u)
       /\ groups' = CreateMessageGroups(groups, g)
       /\ nextMsgId' = nextMsgId + 1
       /\ awaiting' = MapSet(awaiting, u, [op |-> "postMessage", g |-> g, m |-> nextMsgId,
                                           data |-> messages'[nextMsgId]])
       /\ lastOp' = [op |-> "postMessage", status |-> Suspended, g |-> g, u |-> u]
       /\ UNCHANGED <<users, boardVars, eventVars, notifications, wsVars, likeResult,
                      deleting, received>>

\* A variant in which a suspended handler resumes whichever handlers were
\* suspended before it.
ResumableInAnyOrder(waiting, u) ==
  TRUE

\* createMessage is an async method without an await of its own: its promise is
\* settled when the call returns, so the handlers awaiting it resume as promise
\* jobs, first in, first out, in the order in which they stored their messages.
Resumable(waiting, u) ==
  \A v \in DOMAIN waiting : waiting[v].m >= waiting[u].m

\* The same handler from the resumption after createMessage to its response:
\* the broadcast of message_created and the notifications of the other members.
RtPostMessageSend(u) ==
  /\ u \in DOMAIN awaiting
  /\ awaiting[u].op = "postMessage"
  /\ Resumable(awaiting, u)
  /\ awaiting' = MapDelete(awaiting, u)
  /\ LET g == awaiting[u].g
         m == awaiting[u].m
         members == GroupObject(g).members
         message == IF m \in DOMAIN messages THEN messages[m] ELSE awaiting[u].data
         notified == NotifyMessage(MessageRecipients(members, u),
                                   [notifications |-> notifications,
                                    out |-> BroadcastToGroup(userConnections, connState,
                                                             [type |-> "message_created",
                                                              data |-> message],
                                                             MessageAudience(members, u))],
                                   g, now)
     IN
     /\ notifications' = notified.notifications
     /\ out' = notified.out
     /\ received' = [c \in Conns |->
                       IF \E j \in 1..Len(notified.out) :
                            /\ notified.out[j][1] = c
                            /\ notified.out[j][2].type = "message_created"
                         THEN Append(received[c], m) ELSE received[c]]
     /\ lastOp' = [op |-> "postMessage", status |-> 201, g |-> g, u |-> u]
  /\ UNCHANGED <<storeVars, eventVars, wsVars, likeResult, pending, deleting>>

\* The two members whose requests interleave.
Ordered == {DemoUserIds[1], DemoUserIds[2]}

NextOrder ==
  \/ \E u \in Ordered : RtPostMessageBegin("g1", u)
  \/ \E u \in Ordered, valid \in BOOLEAN : RtPostMessageCreate(u, valid)
  \/ \E u \in Ordered : RtPostMessageSend(u)
  \/ \E c \in Conns : WsConnect(c, Listener)
  \/ \E c \in Conns : WsClose(c)

SpecOrder == Init /\ [][NextOrder]_vars

WsTypingStartBegin(c, g) ==
  /\ connState[c] = "open"
  /\ c \notin DOMAIN awaiting
  /\ awaiting' = MapSet(awaiting, c, [op |-> "typing_start", g |-> g, u |-> connUser[c]])
  /\ out' = <<>>
  /\ lastOp' = [op |-> "typing_start", g |-> g, u |-> connUser[c], found |-> FALSE,
                suspended |-> TRUE]
  /\ UNCHANGED <<storeVars, eventVars, notifications, wsVars, likeResult, pending,
                 deleting, received>>

\* The same handler from the resumption after getGroup: it reads the group it
\* was given and the typing map, and nothing of the connection.
WsTypingStartResume(c) ==
  /\ c \in DOMAIN awaiting
  /\ awaiting[c].op = "typing_start"
  /\ awaiting' = MapDelete(awaiting, c)
  /\ LET g == awaiting[c].g
         u == awaiting[c].u
         groupTyping == GroupTyping(typingUsers, g)
         cleared == IF u \in DOMAIN groupTyping THEN {<<g, u, groupTyping[u]>>} ELSE {}
     IN
     IF g \notin DOMAIN groups
       THEN /\ out' = <<>>
            /\ lastOp' = [op |-> "typing_start", g |-> g, u |-> u, found |-> FALSE,
                          suspended |-> FALSE]
            /\ UNCHANGED <<typingUsers, timers>>
       ELSE /\ HasFreshTimer(g, u, cleared)
            /\ timers' = TypingStartTimers(g, u)
            /\ typingUsers' = TypingStartTyping(g, u)
            /\ out' = BroadcastToGroup(userConnections, connState,
                                       TypingUpdate(g, typingUsers'[g]),
                                       FilterOut(groups[g].members, u))
            /\ lastOp' = [op |-> "typing_start", g |-> g, u |-> u, found |-> TRUE,
                          suspended |-> FALSE]
  /\ UNCHANGED <<storeVars, eventVars, notifications, userConnections, connUser,
                 connState, detachedGroups, likeResult, pending, deleting, received>>

NextGhost ==
  \/ \E c \in Conns, u \in WsUsers : WsConnect(c, u)
  \/ \E c \in Conns, g \in FrameGroupIds : WsTypingStartBegin(c, g)
  \/ \E c \in Conns : WsTypingStartResume(c)
  \/ \E g \in GroupIds, u \in WsUsers, n \in TimerIds : WsTimerFire(g, u, n)
  \/ \E c \in Conns : WsClose(c)

SpecGhost == Init /\ [][NextGhost]_vars

RtLikeMessageBegin(m, u) ==
  /\ u \notin DOMAIN awaiting
  /\ out' = <<>>
  /\ IF u \notin DOMAIN users THEN
       /\ lastOp' = [op |-> "like", status |-> 401, m |-> m, u |-> u]
       /\ UNCHANGED awaiting
     ELSE IF m \notin DOMAIN messages THEN
       /\ lastOp' = [op |-> "like", status |-> 404, m |-> m, u |-> u]
       /\ UNCHANGED awaiting
     ELSE
       /\ lastOp' = [op |-> "like", status |-> Suspended, m |-> m, u |-> u]
       /\ awaiting' = MapSet(awaiting, u, [op |-> "like", m |-> m,
                                           groupId |-> messages[m].groupId])
  /\ UNCHANGED <<storeVars, eventVars, notifications, wsVars, likeResult, pending,
                 deleting, received>>

\* The same handler from the resumption after getGroup to its response: the
\* group and membership tests, the call of likeMessage, whose result may be
\* undefined, and the broadcast of that result.
RtLikeMessageResume(u) ==
  /\ u \in DOMAIN awaiting
  /\ awaiting[u].op = "like"
  /\ awaiting' = MapDelete(awaiting, u)
  /\ LET m == awaiting[u].m
         g == awaiting[u].groupId
     IN
     IF g \notin DOMAIN groups THEN
       /\ lastOp' = [op |-> "like", status |-> 404, m |-> m, u |-> u]
       /\ out' = <<>>
       /\ UNCHANGED <<storeVars, eventVars, notifications, wsVars, likeResult, pending,
                      deleting, received>>
     ELSE IF ~Includes(groups[g].members, u) THEN
       /\ lastOp' = [op |-> "like", status |-> 403, m |-> m, u |-> u]
       /\ out' = <<>>
       /\ UNCHANGED <<storeVars, eventVars, notifications, wsVars, likeResult, pending,
                      deleting, received>>
     ELSE
       /\ messages' = LikeMessage(messages, m, u)
       /\ likeResult' = IF m \in DOMAIN messages
                          THEN [likeResult EXCEPT ![<<m, u>>] =
                                  IF Includes(messages'[m].likedBy, u) THEN "liked"
                                                                       ELSE "unliked"]
                          ELSE likeResult
       /\ out' = BroadcastToGroup(userConnections, connState,
                                  [type |-> "message_liked",
                                   data |-> IF m \in DOMAIN messages THEN messages'[m]
                                                                     ELSE None],
                                  groups[g].members)
       /\ lastOp' = [op |-> "like", status |-> 200, m |-> m, u |-> u]
       /\ UNCHANGED <<users, groups, nextMsgId, boardVars, eventVars, notifications, wsVars,
                      pending, deleting, received>>

\* The member who likes and pins, and the author who edits and deletes.
Liker == DemoUserIds[2]
Author == DemoUserIds[1]

NextStale ==
  \/ \E m \in RaceMsgIds : RtLikeMessageBegin(m, Liker)
  \/ RtLikeMessageResume(Liker)
  \/ \E m \in RaceMsgIds : RtDeleteMessage(m, Author)
  \/ \E m \in RaceMsgIds : RtEditMessage(m, Author, <<"a", " ">>)
  \/ \E m \in RaceMsgIds : RtPinMessage(m, Author)
  \/ \E m \in RaceMsgIds : RtUnpinMessage(m, Author)
  \/ \E m \in RaceMsgIds, e \in Emojis : RtReactMessage(m, e, Liker)
  \/ \E c \in Conns : WsConnect(c, Listener)

SpecStale == Init /\ [][NextStale]_vars

C37_TypingEntriesBelongToMembers ==
  \A g \in DOMAIN typingUsers \cap DOMAIN groups :
    \A u \in DOMAIN typingUsers[g] : Includes(groups[g].members, u)

\* ------------------------------------------- the read flag of notifications
\* markNotificationRead: a notification's id is its place in creation order.
MarkNotificationRead(all, id) ==
  IF id \in 1..Len(all) THEN [all EXCEPT ![id].read = TRUE] ELSE all

MarkAllNotificationsRead(all, u) ==
  [i \in 1..Len(all) |-> IF all[i].userId = u THEN [all[i] EXCEPT !.read = TRUE] ELSE all[i]]

\* PATCH /api/notifications/:id/read by user u
RtMarkNotificationRead(id, u) ==
  /\ notifications' = IF u \in DOMAIN users THEN MarkNotificationRead(notifications, id)
                                             ELSE notifications
  /\ out' = <<>>
  /\ lastOp' = [op |-> "markRead", status |-> IF u \in DOMAIN users THEN 200 ELSE 401,
                id |-> id, u |-> u]
  /\ UNCHANGED <<storeVars, eventVars, wsVars, likeResult, pending, deleting, awaiting,
                 received>>

\* POST /api/notifications/mark-all-read by user u
RtMarkAllNotificationsRead(u) ==
  /\ notifications' = IF u \in DOMAIN users THEN MarkAllNotificationsRead(notifications, u)
                                             ELSE notifications
  /\ out' = <<>>
  /\ lastOp' = [op |-> "markAllRead", status |-> IF u \in DOMAIN users THEN 200 ELSE 401,
                u |-> u]
  /\ UNCHANGED <<storeVars, eventVars, wsVars, likeResult, pending, deleting, awaiting,
                 received>>

\* The users who mark notifications (the second is notified of the first's
\* post) and the ids their requests name, one of which no notification has.
Readers == {DemoUserIds[1], DemoUserIds[2]}
ReadIds == {1, 2, 9}

NextRead ==
  \/ RtCreatePost("g1", DemoUserIds[1], TRUE)
  \/ \E id \in ReadIds, u \in Readers : RtMarkNotificationRead(id, u)
  \/ \E u \in Readers : RtMarkAllNotificationsRead(u)
  \/ \E c \in Conns : WsConnect(c, Listener)
  \/ \E c \in Conns : WsClose(c)

SpecRead == Init /\ [][NextRead]_vars

\* C38: a step changes an existing notification only by setting its read flag
\* from false to true, and only when the step is a request of the user the
\* notification belongs to; no step removes a notification.
C38_ReadFlagChangedByOwnerOnly ==
  [][/\ Len(notifications') >= Len(notifications)
     /\ \A i \in 1..Len(notifications) :
          notifications'[i] # notifications[i] =>
            /\ ~notifications[i].read
            /\ notifications'[i] = [notifications[i] EXCEPT !.read = TRUE]
            /\ lastOp'.op \in {"markRead", "markAllRead"}
            /\ lastOp'.u = notifications[i].userId]_vars

====
